---- MODULE Spec2Model ----
(***************************************************************************)
(* Model of the trading-system simulator's matching engine                 *)
(* (src/matching_engine.py): Order, Trade, OrderBook and MatchingEngine.   *)
(*                                                                         *)
(* Python objects are held by reference: `orders` is the object store, in  *)
(* allocation order, and heaps and order maps hold references (indices     *)
(* into `orders`).  Prices are integers (ticks), timestamps are readings   *)
(* of a clock that never runs backwards but may return the same value      *)
(* twice.  The latency accounting of submit_order (start_time,             *)
(* total_latency) is not represented; order_count is.                      *)
(***************************************************************************)
EXTENDS Integers, Sequences, FiniteSets

VARIABLES
    orders,         \* object store: Seq of Order records (reference = index)
    order_books,    \* MatchingEngine.order_books: symbol -> OrderBook
    trades,         \* MatchingEngine.trades
    next_order_id,  \* MatchingEngine.next_order_id
    next_trade_id,  \* MatchingEngine.next_trade_id
    order_count,    \* MatchingEngine.order_count
    now,            \* last reading of time.time()
    pc,             \* "idle", or "match" while a submit_order call is in _match_orders
    cur,            \* reference of the order of the submit_order call in progress (0: none)
    call,           \* the side passed to the last submit_order call, and what it raised
    snapshot,       \* the last get_order_book_snapshot call: its symbol and what it returned
    positions,      \* PnLCalculator.positions: <<user_id, symbol>> -> Position
    current_prices, \* PnLCalculator.current_prices: symbol -> price
    fills,          \* the process_trade calls made so far, each with the position it left
    ret,            \* what the last PnLCalculator call returned
    db_positions,   \* the positions table: <<user_id, symbol>> -> row
    pnl_history,    \* the pnl_history table
    db_orders,      \* the orders table: order_id -> row
    recon,          \* the reconcile_trades call: where it is and its local variables
    reconciliation_log, \* the reconciliation_log table
    result,         \* what the last reconcile_trades call returned
    runs,           \* the number of reconcile_trades calls made so far
    fetch,          \* the last read of the trades of a date: the rows the store
                    \* holds for it and whether the query raised
    db_trades,      \* the trades table, in insertion order
    sim,            \* the simulator command: where it is, its batch of orders,
                    \* the store failures it met and its exit code
    threads         \* the submit_order calls made by concurrent threads: where
                    \* each is and its local variables

engine_vars == <<orders, order_books, trades, next_order_id, next_trade_id,
                 order_count, now, pc, cur, call, snapshot>>

pnl_vars == <<positions, current_prices, fills, ret, db_positions, pnl_history>>

recon_vars == <<db_orders, recon, reconciliation_log, result, runs, fetch>>

run_vars == <<db_trades, sim, threads>>

vars == <<orders, order_books, trades, next_order_id, next_trade_id,
          order_count, now, pc, cur, call, snapshot, positions,
          current_prices, fills, ret,
          db_positions, pnl_history, db_orders, recon, reconciliation_log, result,
          runs, fetch, db_trades, sim, threads>>

----------------------------------------------------------------------------
\* Bounds of the model: orders submitted in a run (per specification) and the
\* last clock reading

MaxOrders == 3
MaxOrdersDeep == 4
MaxOrdersRaw == 3
MaxTime == 1
MaxFills == 3
MaxFillsMark == 2
MaxOrdersSide == 2
MantissaBits == 5
MaxDbTrades == 2
PercentBits == 14
MaxAuditTrades == 3
MaxRuns == 2

\* What the callers submit: user ids, tickers, price ticks and sizes
Users == {1}
Symbols == {"AAPL", "MSFT"}
Prices == {1, 2}
Quantities == {1, 2}

\* OrderSide
Sides == {"BUY", "SELL"}

\* What a caller may pass although the data model forbids it
SideStrings == {"BUY", "SELL", "HOLD"}
RawPrices == {0} \cup Prices
RawQuantities == {0 - 1, 0} \cup Quantities

----------------------------------------------------------------------------
\* time.time(): a reading at or after the previous one
ClockReadings(t) == {r \in t..(t + 1) : r <= MaxTime}

\* Order.remaining_quantity
remaining_quantity(o) == o.quantity - o.filled_quantity

\* a comparison that ranks sell orders by arrival alone
Lt_sells_by_time(self, other) ==
    IF self.side = "BUY"
    THEN IF self.price # other.price
         THEN self.price > other.price
         ELSE self.timestamp < other.timestamp
    ELSE self.timestamp < other.timestamp

\* Order.__lt__
Lt(self, other) ==
    IF self.side = "BUY"
    THEN IF self.price # other.price
         THEN self.price > other.price
         ELSE self.timestamp < other.timestamp
    ELSE IF self.price # other.price
         THEN self.price < other.price
         ELSE self.timestamp < other.timestamp

\* heapq._siftdown(heap, startpos, pos) with newitem = heap[pos]; positions 1-based
RECURSIVE siftdown(_, _, _, _, _)
siftdown(os, heap, startpos, pos, newitem) ==
    IF pos > startpos /\ Lt(os[newitem], os[heap[pos \div 2]])
    THEN siftdown(os, [heap EXCEPT ![pos] = heap[pos \div 2]], startpos,
                  pos \div 2, newitem)
    ELSE [heap EXCEPT ![pos] = newitem]

\* heapq._siftup(heap, pos) with newitem = heap[pos]; positions 1-based
RECURSIVE siftup(_, _, _, _)
siftup(os, heap, pos, newitem) ==
    LET childpos == 2 * pos
        rightpos == childpos + 1
        c == IF rightpos <= Len(heap)
                 /\ ~Lt(os[heap[childpos]], os[heap[rightpos]])
             THEN rightpos ELSE childpos
    IN  IF childpos <= Len(heap)
        THEN siftup(os, [heap EXCEPT ![pos] = heap[c]], c, newitem)
        ELSE siftdown(os, [heap EXCEPT ![pos] = newitem], 1, pos, newitem)

\* heapq.heappush
heappush(os, heap, item) ==
    siftdown(os, Append(heap, item), 1, Len(heap) + 1, item)

\* heapq.heappop (the heap that is left; the popped item is discarded by the caller)
heappop(os, heap) ==
    LET lastelt == heap[Len(heap)]
        rest == SubSeq(heap, 1, Len(heap) - 1)
    IN  IF rest # <<>>
        THEN siftup(os, [rest EXCEPT ![1] = lastelt], 1, lastelt)
        ELSE rest

\* OrderBook.__init__
NewOrderBook(symbol) ==
    [symbol |-> symbol, buy_orders |-> <<>>, sell_orders |-> <<>>,
     order_map |-> <<>>]

\* dict assignment d[k] = v
DictSet(d, k, v) == [x \in (DOMAIN d) \cup {k} |-> IF x = k THEN v ELSE d[x]]

\* OrderBook.add_order
add_order(os, book, ref) ==
    LET o == os[ref]
        b1 == IF o.side = "BUY"
              THEN [book EXCEPT !.buy_orders = heappush(os, @, ref)]
              ELSE [book EXCEPT !.sell_orders = heappush(os, @, ref)]
    IN  [b1 EXCEPT !.order_map = DictSet(@, o.order_id, ref)]

\* one while loop of OrderBook.remove_filled_orders
RECURSIVE pop_filled(_, _)
pop_filled(os, heap) ==
    IF heap # <<>> /\ remaining_quantity(os[heap[1]]) = 0
    THEN pop_filled(os, heappop(os, heap))
    ELSE heap

\* a clean-up that leaves filled orders at the head of the heaps
remove_nothing(os, book) == book

\* OrderBook.remove_filled_orders
remove_filled_orders(os, book) ==
    [book EXCEPT !.buy_orders = pop_filled(os, @),
                 !.sell_orders = pop_filled(os, @)]

\* the comparison of OrderBook.can_match mutated: strict instead of >=
can_match_strict(os, book) ==
    /\ book.buy_orders # <<>>
    /\ book.sell_orders # <<>>
    /\ os[book.buy_orders[1]].price > os[book.sell_orders[1]].price

\* OrderBook.can_match with the operands of its comparison exchanged
can_match_swapped(os, book) ==
    /\ book.buy_orders # <<>>
    /\ book.sell_orders # <<>>
    /\ os[book.sell_orders[1]].price >= os[book.buy_orders[1]].price

\* OrderBook.can_match
can_match(os, book) ==
    /\ book.buy_orders # <<>>
    /\ book.sell_orders # <<>>
    /\ os[book.buy_orders[1]].price >= os[book.sell_orders[1]].price

Min(a, b) == IF a <= b THEN a ELSE b

\* trade_quantity taken from the buy order alone
trade_quantity_buy(buy_order, sell_order) == remaining_quantity(buy_order)

\* _match_orders: trade_quantity
trade_quantity(buy_order, sell_order) ==
    Min(remaining_quantity(buy_order), remaining_quantity(sell_order))

\* _match_orders: trade_price
trade_price(buy_order, sell_order) ==
    IF buy_order.timestamp < sell_order.timestamp
    THEN buy_order.price
    ELSE sell_order.price

\* the fill with = in place of +=
fill_assign(o, qty) ==
    [o EXCEPT !.filled_quantity = qty,
              !.status = IF o.quantity - qty = 0 THEN "FILLED"
                         ELSE IF qty > 0 THEN "PARTIAL" ELSE @]

\* _match_orders: filled_quantity += trade_quantity, then the status update
fill(o, qty) ==
    LET f == o.filled_quantity + qty
    IN  [o EXCEPT !.filled_quantity = f,
                  !.status = IF o.quantity - f = 0 THEN "FILLED"
                             ELSE IF f > 0 THEN "PARTIAL" ELSE @]

\* an id counter that is not advanced
next_id_stuck(id) == id

\* self.next_order_id += 1, self.next_trade_id += 1
next_id(id) == id + 1

----------------------------------------------------------------------------
Init ==
    /\ orders = <<>>
    /\ order_books = <<>>
    /\ trades = <<>>
    /\ next_order_id = 1
    /\ next_trade_id = 1
    /\ order_count = 0
    /\ now = 0
    /\ pc = "idle"
    /\ cur = 0
    /\ call = [side |-> "", raised |-> "None"]
    /\ snapshot = [symbol |-> "", returned |-> [kind |-> "None"]]
    /\ positions = <<>>
    /\ current_prices = <<>>
    /\ fills = <<>>
    /\ ret = [kind |-> "None"]
    /\ db_positions = <<>>
    /\ pnl_history = <<>>
    /\ db_orders = <<>>
    /\ recon = [pc |-> "idle"]
    /\ reconciliation_log = <<>>
    /\ result = [kind |-> "None"]
    /\ runs = 0
    /\ fetch = [stored |-> 0, raised |-> FALSE]
    /\ db_trades = <<>>
    /\ sim = [pc |-> "idle"]
    /\ threads = <<>>

\* a lookup that keeps the book of the symbol and forgets every other book
only_order_book(books, symbol) ==
    IF symbol \in DOMAIN books THEN DictSet(<<>>, symbol, books[symbol])
    ELSE DictSet(<<>>, symbol, NewOrderBook(symbol))

\* MatchingEngine.get_or_create_order_book
get_or_create_order_book(books, symbol) ==
    IF symbol \in DOMAIN books THEN books
    ELSE DictSet(books, symbol, NewOrderBook(symbol))

\* OrderSide(side) taking any string for a side
is_order_side_any(side) == TRUE

\* whether OrderSide(side) finds a member of the enum; it raises ValueError
\* when it does not
is_order_side(side) == side \in Sides

\* MatchingEngine.submit_order up to the call of _match_orders.  OrderSide(side)
\* raises ValueError for a string that names no side, before anything is changed.
submit_order(user_id, symbol, side, price, quantity) ==
    /\ pc = "idle"
    /\ UNCHANGED pnl_vars
    /\ UNCHANGED recon_vars
    /\ UNCHANGED run_vars
    /\ UNCHANGED snapshot
    /\ \E start_time \in ClockReadings(now) :
        IF ~is_order_side(side)
        THEN /\ now' = start_time
             /\ call' = [side |-> side, raised |-> "ValueError"]
             /\ UNCHANGED <<orders, order_books, trades, next_order_id,
                            next_trade_id, order_count, pc, cur>>
        ELSE \E timestamp \in ClockReadings(start_time) :
             LET order == [order_id |-> next_order_id, user_id |-> user_id,
                           symbol |-> symbol, side |-> side, price |-> price,
                           quantity |-> quantity, timestamp |-> timestamp,
                           status |-> "PENDING", filled_quantity |-> 0]
                 ref == Len(orders) + 1
                 os == Append(orders, order)
                 books == get_or_create_order_book(order_books, symbol)
             IN  /\ orders' = os
                 /\ next_order_id' = next_id(next_order_id)
                 /\ order_books' = [books EXCEPT ![symbol] = add_order(os, @, ref)]
                 /\ now' = timestamp
                 /\ pc' = "match"
                 /\ cur' = ref
                 /\ call' = [side |-> side, raised |-> "None"]
                 /\ UNCHANGED <<trades, next_trade_id, order_count>>

\* one iteration of the while loop of MatchingEngine._match_orders
MatchIteration ==
    /\ pc = "match"
    /\ UNCHANGED pnl_vars
    /\ UNCHANGED recon_vars
    /\ UNCHANGED run_vars
    /\ LET symbol == orders[cur].symbol
           order_book == order_books[symbol]
       IN  /\ can_match(orders, order_book)
           /\ \E timestamp \in ClockReadings(now) :
              LET b == order_book.buy_orders[1]
                  s == order_book.sell_orders[1]
                  buy_order == orders[b]
                  sell_order == orders[s]
                  qty == trade_quantity(buy_order, sell_order)
                  trade == [trade_id |-> next_trade_id,
                            buy_order_id |-> buy_order.order_id,
                            sell_order_id |-> sell_order.order_id,
                            symbol |-> order_book.symbol,
                            price |-> trade_price(buy_order, sell_order),
                            quantity |-> qty,
                            timestamp |-> timestamp]
                  os == [orders EXCEPT ![b] = fill(@, qty), ![s] = fill(@, qty)]
              IN  /\ trades' = Append(trades, trade)
                  /\ next_trade_id' = next_id(next_trade_id)
                  /\ orders' = os
                  /\ order_books' = [order_books EXCEPT
                                        ![symbol] = remove_filled_orders(os, @)]
                  /\ now' = timestamp
                  /\ UNCHANGED <<next_order_id, order_count, pc, cur, call,
                                 snapshot>>

\* _match_orders leaves its loop and submit_order returns
SubmitReturn ==
    /\ pc = "match"
    /\ ~can_match(orders, order_books[orders[cur].symbol])
    /\ order_count' = order_count + 1
    /\ pc' = "idle"
    /\ cur' = 0
    /\ UNCHANGED <<orders, order_books, trades, next_order_id, next_trade_id,
                   now, call, snapshot>>
    /\ UNCHANGED pnl_vars
    /\ UNCHANGED recon_vars
    /\ UNCHANGED run_vars

\* submissions that respect the data model: a side, positive price and quantity
SubmitValid ==
    /\ Len(orders) < MaxOrders
    /\ \E u \in Users, sym \in Symbols, side \in Sides, p \in Prices, q \in Quantities :
          submit_order(u, sym, side, p, q)

\* the same submissions in longer runs
SubmitDeep ==
    /\ Len(orders) < MaxOrdersDeep
    /\ \E u \in Users, sym \in Symbols, side \in Sides, p \in Prices, q \in Quantities :
          submit_order(u, sym, side, p, q)

\* submissions with whatever a caller can pass
SubmitRaw ==
    /\ Len(orders) < MaxOrdersRaw
    /\ \E u \in Users, sym \in Symbols, side \in SideStrings, p \in RawPrices,
          q \in RawQuantities :
          submit_order(u, sym, side, p, q)

Next == SubmitValid \/ MatchIteration \/ SubmitReturn

Spec == Init /\ [][Next]_vars

NextDeep == SubmitDeep \/ MatchIteration \/ SubmitReturn

SpecDeep == Init /\ [][NextDeep]_vars

NextRaw == SubmitRaw \/ MatchIteration \/ SubmitReturn

SpecRaw == Init /\ [][NextRaw]_vars

\* submissions with a positive price and quantity and any side string
SubmitAnySide ==
    /\ Len(orders) < MaxOrdersSide
    /\ \E u \in Users, sym \in Symbols, side \in SideStrings, p \in Prices,
          q \in Quantities :
          submit_order(u, sym, side, p, q)

NextSide == SubmitAnySide \/ MatchIteration \/ SubmitReturn

SpecSide == Init /\ [][NextSide]_vars

----------------------------------------------------------------------------
\* Helpers of the properties

Refs == 1..Len(orders)
TradeIds == 1..Len(trades)

\* the order object an order_id names
OrderOf(os, id) == os[CHOOSE r \in 1..Len(os) : os[r].order_id = id]

BuysOf(os, symbol) ==
    {r \in 1..Len(os) : os[r].symbol = symbol /\ os[r].side = "BUY"
                          /\ remaining_quantity(os[r]) > 0}
SellsOf(os, symbol) ==
    {r \in 1..Len(os) : os[r].symbol = symbol /\ os[r].side = "SELL"
                          /\ remaining_quantity(os[r]) > 0}

RECURSIVE TradedQuantity(_, _)
TradedQuantity(id, n) ==
    IF n = 0 THEN 0
    ELSE TradedQuantity(id, n - 1)
         + (IF trades[n].buy_order_id = id \/ trades[n].sell_order_id = id
            THEN trades[n].quantity ELSE 0)

RECURSIVE TotalTraded(_)
TotalTraded(n) == IF n = 0 THEN 0 ELSE TotalTraded(n - 1) + trades[n].quantity

RECURSIVE TotalFilled(_)
TotalFilled(n) == IF n = 0 THEN 0 ELSE TotalFilled(n - 1) + orders[n].filled_quantity

\* a step of _match_orders has appended one trade
Emits == Len(trades') = Len(trades) + 1
NewTrade == trades'[Len(trades')]

----------------------------------------------------------------------------
\* C1: whenever no submission is in progress, every symbol's book has an empty
\* side or its best buy price is below its best sell price; no resting buy with
\* open quantity is priced at or above a resting sell with open quantity.
NoCrossedBookAtRest ==
    pc = "idle" =>
        \A sym \in DOMAIN order_books :
            LET book == order_books[sym]
            IN  /\ \/ book.buy_orders = <<>>
                   \/ book.sell_orders = <<>>
                   \/ orders[book.buy_orders[1]].price
                        < orders[book.sell_orders[1]].price
                /\ \A b \in BuysOf(orders, sym), s \in SellsOf(orders, sym) :
                       orders[b].price < orders[s].price

\* C1 witness: at rest after a match, a book with both sides occupied
NoCrossedBookWitness ==
    /\ pc = "idle"
    /\ trades # <<>>
    /\ \E sym \in DOMAIN order_books :
          /\ order_books[sym].buy_orders # <<>>
          /\ order_books[sym].sell_orders # <<>>
          /\ \E i \in TradeIds : trades[i].symbol = sym

\* C2: every emitted trade is priced between the limit of its sell order and
\* the limit of its buy order.
PriceContainment ==
    \A i \in TradeIds :
        /\ OrderOf(orders, trades[i].sell_order_id).price <= trades[i].price
        /\ trades[i].price <= OrderOf(orders, trades[i].buy_order_id).price

\* C2 witness: a trade between orders whose limits differ
PriceContainmentWitness ==
    \E i \in TradeIds :
        OrderOf(orders, trades[i].sell_order_id).price
            < OrderOf(orders, trades[i].buy_order_id).price

\* C3: for every order the quantities of the trades that reference it add up to
\* its filled_quantity, and twice the traded volume is the total filled quantity.
VolumeConservation ==
    /\ \A r \in Refs :
          TradedQuantity(orders[r].order_id, Len(trades)) = orders[r].filled_quantity
    /\ 2 * TotalTraded(Len(trades)) = TotalFilled(Len(orders))

\* C3 witness: submissions are complete and an order was filled by two trades
VolumeConservationWitness ==
    /\ pc = "idle"
    /\ \E r \in Refs, i, j \in TradeIds :
          /\ i # j
          /\ orders[r].order_id \in {trades[i].buy_order_id, trades[i].sell_order_id}
          /\ orders[r].order_id \in {trades[j].buy_order_id, trades[j].sell_order_id}

\* C4: a trade is priced at the limit of whichever of its orders has the lower
\* timestamp, and at the buy order's limit when the timestamps are equal.
PricingRuleBuyOnTie ==
    \A i \in TradeIds :
        LET b == OrderOf(orders, trades[i].buy_order_id)
            s == OrderOf(orders, trades[i].sell_order_id)
        IN  trades[i].price = IF b.timestamp <= s.timestamp THEN b.price ELSE s.price

\* What the engine does instead: the sell order's limit on equal timestamps.
PricingRuleSellOnTie ==
    \A i \in TradeIds :
        LET b == OrderOf(orders, trades[i].buy_order_id)
            s == OrderOf(orders, trades[i].sell_order_id)
        IN  trades[i].price = IF b.timestamp < s.timestamp THEN b.price ELSE s.price

\* C5: a trade pairs the highest-priced buy and the lowest-priced sell among the
\* orders of its symbol that have remaining quantity > 0 when the match is made.
PricePriority ==
    [][Emits =>
        LET t == NewTrade
            buys == BuysOf(orders, t.symbol)
            sells == SellsOf(orders, t.symbol)
        IN  /\ \E b \in buys :
                  /\ orders[b].order_id = t.buy_order_id
                  /\ \A x \in buys : orders[x].price <= orders[b].price
            /\ \E s \in sells :
                  /\ orders[s].order_id = t.sell_order_id
                  /\ \A x \in sells : orders[x].price >= orders[s].price]_vars

\* C6: an order is never filled while an order of the same symbol, side and
\* price that was submitted before it still has remaining quantity > 0.
TimePriority ==
    [][\A r \in Refs :
          orders'[r].filled_quantity # orders[r].filled_quantity =>
              ~\E e \in Refs :
                  /\ orders[e].order_id < orders[r].order_id
                  /\ orders[e].symbol = orders[r].symbol
                  /\ orders[e].side = orders[r].side
                  /\ orders[e].price = orders[r].price
                  /\ remaining_quantity(orders[e]) > 0]_vars

\* C7: order_ids are 1,2,3,... in submission order and trade_ids 1,2,3,... in
\* match order; ids are never changed or reused, the trade list only grows at
\* its end, and a new trade's id exceeds the id of every trade emitted before.
MonotoneIds ==
    [][/\ \A r \in 1..Len(orders') : orders'[r].order_id = r
       /\ \A i \in 1..Len(trades') : trades'[i].trade_id = i
       /\ Len(orders') >= Len(orders)
       /\ Len(trades') >= Len(trades)
       /\ \A r \in Refs : orders'[r].order_id = orders[r].order_id
       /\ \A i \in TradeIds : trades'[i] = trades[i]
       /\ Emits => \A i \in TradeIds : trades[i].trade_id < NewTrade.trade_id
       /\ next_order_id' > Len(orders')
       /\ next_trade_id' > Len(trades')]_vars

\* C7 witness: two trades emitted by two different submissions (the later
\* trade references an order submitted after both orders of the earlier one)
MonotoneIdsWitness ==
    /\ pc = "idle"
    /\ \E i, j \in TradeIds :
          /\ i < j
          /\ \E n \in {trades[j].buy_order_id, trades[j].sell_order_id} :
                /\ n > trades[i].buy_order_id
                /\ n > trades[i].sell_order_id

\* C8: an order accepted with positive quantity always has
\* 0 <= filled_quantity <= quantity.
FilledWithinQuantity ==
    \A r \in Refs :
        orders[r].quantity > 0 =>
            /\ 0 <= orders[r].filled_quantity
            /\ orders[r].filled_quantity <= orders[r].quantity

StatusRank(st) ==
    CASE st = "PENDING" -> 0 [] st = "PARTIAL" -> 1 [] st = "FILLED" -> 2
      [] OTHER -> 3

StatusAgrees(o) ==
    /\ (o.status = "PENDING") <=> (o.filled_quantity = 0)
    /\ (o.status = "PARTIAL") <=>
           (0 < o.filled_quantity /\ o.filled_quantity < o.quantity)
    /\ (o.status = "FILLED") <=> (o.filled_quantity = o.quantity)

\* C9: an order's status agrees with its fill (PENDING iff nothing filled,
\* PARTIAL iff partly filled, FILLED iff wholly filled), it only moves forward
\* along PENDING, PARTIAL, FILLED, and it is never CANCELLED.
StatusLifecycle ==
    [][\A r \in 1..Len(orders') :
          /\ StatusAgrees(orders'[r])
          /\ orders'[r].status # "CANCELLED"
          /\ r \in Refs =>
                StatusRank(orders[r].status) <= StatusRank(orders'[r].status)]_vars

\* C10: a trade's quantity is the smaller of the remaining quantities its two
\* orders had just before the match, and it is positive.
TradeQuantityIsMin ==
    [][Emits =>
        LET t == NewTrade
            b == OrderOf(orders, t.buy_order_id)
            s == OrderOf(orders, t.sell_order_id)
        IN  /\ t.quantity = Min(remaining_quantity(b), remaining_quantity(s))
            /\ t.quantity > 0]_vars

\* C10 witness: a trade smaller than one of its orders and as large as the other
TradeQuantityWitness ==
    \E i \in TradeIds :
        LET b == OrderOf(orders, trades[i].buy_order_id)
            s == OrderOf(orders, trades[i].sell_order_id)
        IN  /\ trades[i].quantity < b.quantity
            /\ trades[i].quantity = s.quantity

----------------------------------------------------------------------------
\* the new order of a submit step does not cross the opposite side of its book
\* as it stood before the submission: that side is empty, or a buy is priced
\* below the best sell, or a sell is priced above the best buy
DoesNotCross(o, books) ==
    \/ o.symbol \notin DOMAIN books
    \/ IF o.side = "BUY"
       THEN \/ books[o.symbol].sell_orders = <<>>
            \/ o.price < orders[books[o.symbol].sell_orders[1]].price
       ELSE \/ books[o.symbol].buy_orders = <<>>
            \/ o.price > orders[books[o.symbol].buy_orders[1]].price

\* C11: a submission that does not cross the opposite side emits no trade; the
\* new order rests, PENDING with filled_quantity 0, and no other order changes,
\* up to and including the return of the call.
NoCrossNoTrade ==
    [][/\ (pc = "idle" /\ pc' = "match" /\ DoesNotCross(orders'[cur'], order_books)) =>
            LET o == orders'[cur']
                book == order_books'[o.symbol]
            IN  /\ ~can_match(orders', book)
                /\ trades' = trades
                /\ \A r \in Refs : orders'[r] = orders[r]
                /\ o.status = "PENDING" /\ o.filled_quantity = 0
                /\ \E k \in DOMAIN (IF o.side = "BUY" THEN book.buy_orders
                                      ELSE book.sell_orders) :
                      (IF o.side = "BUY" THEN book.buy_orders
                       ELSE book.sell_orders)[k] = cur'
       /\ (pc = "match" /\ ~can_match(orders, order_books[orders[cur].symbol])) =>
            /\ pc' = "idle"
            /\ trades' = trades
            /\ orders' = orders
            /\ order_books' = order_books]_vars

\* C11 witness: a call has returned with both sides of a book occupied and no
\* trade emitted (an order was submitted against a non-empty opposite side
\* without crossing it)
NoCrossNoTradeWitness ==
    /\ pc = "idle"
    /\ trades = <<>>
    /\ \E sym \in DOMAIN order_books :
          /\ order_books[sym].buy_orders # <<>>
          /\ order_books[sym].sell_orders # <<>>
          /\ \A r \in Refs : orders[r].status = "PENDING"

----------------------------------------------------------------------------
(***************************************************************************)
(* The P&L calculator (src/pnl_calculator.py).  Prices, avg_cost and       *)
(* realized_pnl are Python floats: binary floating-point numbers, every    *)
(* arithmetic result rounded to the nearest representable one, ties to     *)
(* the even mantissa.  A float is held here as the fraction it equals, in  *)
(* lowest terms, and has MantissaBits significant bits where a Python      *)
(* float has 53; exponent overflow and underflow are not represented.      *)
(* Quantities are Python ints and are exact.                               *)
(***************************************************************************)

\* abs()
Abs(x) == IF x < 0 THEN 0 - x ELSE x

RECURSIVE GCD(_, _)
GCD(a, b) == IF b = 0 THEN a ELSE GCD(b, a % b)

\* the number n/d (d # 0) in lowest terms with a positive denominator
Rat(n, d) ==
    LET g == GCD(Abs(n), Abs(d))
        sgn == IF d < 0 THEN 0 - 1 ELSE 1
    IN  [n |-> (sgn * n) \div g, d |-> (sgn * d) \div g]

\* an int used in float arithmetic
RatInt(i) == [n |-> i, d |-> 1]

\* the exact values of a + b, a - b, i * a and a / i (i an int, i # 0 in the
\* division)
RatAdd(a, b) == Rat(a.n * b.d + b.n * a.d, a.d * b.d)
RatSub(a, b) == Rat(a.n * b.d - b.n * a.d, a.d * b.d)
RatScale(i, a) == Rat(i * a.n, a.d)
RatDivInt(a, i) == Rat(a.n, a.d * i)

RECURSIVE Pow2(_)
Pow2(k) == IF k = 0 THEN 1 ELSE 2 * Pow2(k - 1)

\* n/d (n >= 0, d > 0) rounded to the nearest integer, ties to the even one
RoundHalfEven(n, d) ==
    LET q == n \div d
        r == n % d
    IN  IF 2 * r > d \/ (2 * r = d /\ q % 2 = 1) THEN q + 1 ELSE q

\* the mantissa m of a float is a whole number with MantissaLow <= m < MantissaTop
MantissaTop == Pow2(MantissaBits)
MantissaLow == Pow2(MantissaBits - 1)

\* n/d > 0 written as (n'/d') * up / down with n'/d' in [low, top): the
\* mantissa before rounding, and the power of two it is scaled by
RECURSIVE Fit(_, _, _, _, _, _)
Fit(n, d, up, down, top, low) ==
    IF n >= top * d THEN Fit(n, 2 * d, 2 * up, down, top, low)
    ELSE IF n < low * d THEN Fit(2 * n, d, up, 2 * down, top, low)
    ELSE [n |-> n, d |-> d, up |-> up, down |-> down]

\* the float nearest to the number a, for mantissas in [low, top)
FloatOf(a, top, low) ==
    IF a.n = 0 THEN a
    ELSE LET f == Fit(Abs(a.n), a.d, 1, 1, top, low)
             mantissa == RoundHalfEven(f.n, f.d)
             sgn == IF a.n < 0 THEN 0 - 1 ELSE 1
         IN  Rat(sgn * mantissa * f.up, f.down)

\* the float nearest to the number a, in the P&L calculator
Float(a) == FloatOf(a, MantissaTop, MantissaLow)

\* a + b, a - b, i * a and a / i as float arithmetic computes them
FAdd(a, b) == Float(RatAdd(a, b))
FSub(a, b) == Float(RatSub(a, b))
FMul(i, a) == Float(RatScale(i, a))
FDiv(a, i) == Float(RatDivInt(a, i))

\* Position(user_id, symbol): quantity 0, avg_cost 0.0, realized_pnl 0.0
NewPosition(user_id, symbol) ==
    [user_id |-> user_id, symbol |-> symbol, quantity |-> 0,
     avg_cost |-> RatInt(0), realized_pnl |-> RatInt(0)]

\* PnLCalculator._get_position: the dictionary after the lookup, which creates
\* the position of a key it does not hold
get_position(ps, user_id, symbol) ==
    IF <<user_id, symbol>> \in DOMAIN ps THEN ps
    ELSE DictSet(ps, <<user_id, symbol>>, NewPosition(user_id, symbol))

\* _process_buy taking the price of the last fill as the average cost of an
\* extended long
process_buy_last_price(position, price, quantity) ==
    LET old_quantity == position.quantity
        old_avg_cost == position.avg_cost
    IN  IF old_quantity >= 0
        THEN LET total_cost == FAdd(FMul(old_quantity, old_avg_cost),
                                      FMul(quantity, RatInt(price)))
                 new_quantity == old_quantity + quantity
             IN  [position EXCEPT
                    !.quantity = new_quantity,
                    !.avg_cost = RatInt(price)]
        ELSE IF quantity <= Abs(old_quantity)
             THEN LET realized_pnl == FMul(quantity,
                                               FSub(old_avg_cost, RatInt(price)))
                      new_quantity == old_quantity + quantity
                  IN  [position EXCEPT
                         !.realized_pnl = FAdd(@, realized_pnl),
                         !.quantity = new_quantity,
                         !.avg_cost = IF new_quantity = 0 THEN RatInt(0) ELSE @]
             ELSE LET cover_quantity == Abs(old_quantity)
                      realized_pnl == FMul(cover_quantity,
                                               FSub(old_avg_cost, RatInt(price)))
                      remaining == quantity - cover_quantity
                  IN  [position EXCEPT
                         !.realized_pnl = FAdd(@, realized_pnl),
                         !.quantity = remaining,
                         !.avg_cost = RatInt(price)]

\* _process_buy keeping the old average cost when a short flips to a long
process_buy_flip_cost(position, price, quantity) ==
    LET old_quantity == position.quantity
        old_avg_cost == position.avg_cost
    IN  IF old_quantity >= 0
        THEN LET total_cost == FAdd(FMul(old_quantity, old_avg_cost),
                                      FMul(quantity, RatInt(price)))
                 new_quantity == old_quantity + quantity
             IN  [position EXCEPT
                    !.quantity = new_quantity,
                    !.avg_cost = IF new_quantity > 0
                                 THEN FDiv(total_cost, new_quantity)
                                 ELSE RatInt(0)]
        ELSE IF quantity <= Abs(old_quantity)
             THEN LET realized_pnl == FMul(quantity,
                                               FSub(old_avg_cost, RatInt(price)))
                      new_quantity == old_quantity + quantity
                  IN  [position EXCEPT
                         !.realized_pnl = FAdd(@, realized_pnl),
                         !.quantity = new_quantity,
                         !.avg_cost = IF new_quantity = 0 THEN RatInt(0) ELSE @]
             ELSE LET cover_quantity == Abs(old_quantity)
                      realized_pnl == FMul(cover_quantity,
                                               FSub(old_avg_cost, RatInt(price)))
                      remaining == quantity - cover_quantity
                  IN  [position EXCEPT
                         !.realized_pnl = FAdd(@, realized_pnl),
                         !.quantity = remaining,
                         !.avg_cost = @]

\* PnLCalculator._process_buy: the position after a buy
process_buy(position, price, quantity) ==
    LET old_quantity == position.quantity
        old_avg_cost == position.avg_cost
    IN  IF old_quantity >= 0
        THEN LET total_cost == FAdd(FMul(old_quantity, old_avg_cost),
                                      FMul(quantity, RatInt(price)))
                 new_quantity == old_quantity + quantity
             IN  [position EXCEPT
                    !.quantity = new_quantity,
                    !.avg_cost = IF new_quantity > 0
                                 THEN FDiv(total_cost, new_quantity)
                                 ELSE RatInt(0)]
        ELSE IF quantity <= Abs(old_quantity)
             THEN LET realized_pnl == FMul(quantity,
                                               FSub(old_avg_cost, RatInt(price)))
                      new_quantity == old_quantity + quantity
                  IN  [position EXCEPT
                         !.realized_pnl = FAdd(@, realized_pnl),
                         !.quantity = new_quantity,
                         !.avg_cost = IF new_quantity = 0 THEN RatInt(0) ELSE @]
             ELSE LET cover_quantity == Abs(old_quantity)
                      realized_pnl == FMul(cover_quantity,
                                               FSub(old_avg_cost, RatInt(price)))
                      remaining == quantity - cover_quantity
                  IN  [position EXCEPT
                         !.realized_pnl = FAdd(@, realized_pnl),
                         !.quantity = remaining,
                         !.avg_cost = RatInt(price)]

\* _process_sell losing the sign of the quantity left after closing a long
process_sell_unsigned(position, price, quantity) ==
    LET old_quantity == position.quantity
        old_avg_cost == position.avg_cost
    IN  IF old_quantity <= 0
        THEN LET total_cost == FAdd(FMul(Abs(old_quantity), old_avg_cost),
                                      FMul(quantity, RatInt(price)))
                 new_quantity == old_quantity - quantity
             IN  [position EXCEPT
                    !.quantity = new_quantity,
                    !.avg_cost = IF new_quantity # 0
                                 THEN FDiv(total_cost, Abs(new_quantity))
                                 ELSE RatInt(0)]
        ELSE IF quantity <= old_quantity
             THEN LET realized_pnl == FMul(quantity,
                                               FSub(RatInt(price), old_avg_cost))
                      new_quantity == old_quantity - quantity
                  IN  [position EXCEPT
                         !.realized_pnl = FAdd(@, realized_pnl),
                         !.quantity = new_quantity,
                         !.avg_cost = IF new_quantity = 0 THEN RatInt(0) ELSE @]
             ELSE LET close_quantity == old_quantity
                      realized_pnl == FMul(close_quantity,
                                               FSub(RatInt(price), old_avg_cost))
                      remaining == quantity - close_quantity
                  IN  [position EXCEPT
                         !.realized_pnl = FAdd(@, realized_pnl),
                         !.quantity = remaining,
                         !.avg_cost = RatInt(price)]

\* _process_sell leaving the average cost in place when the long is closed
process_sell_keep_cost(position, price, quantity) ==
    LET old_quantity == position.quantity
        old_avg_cost == position.avg_cost
    IN  IF old_quantity <= 0
        THEN LET total_cost == FAdd(FMul(Abs(old_quantity), old_avg_cost),
                                      FMul(quantity, RatInt(price)))
                 new_quantity == old_quantity - quantity
             IN  [position EXCEPT
                    !.quantity = new_quantity,
                    !.avg_cost = IF new_quantity # 0
                                 THEN FDiv(total_cost, Abs(new_quantity))
                                 ELSE RatInt(0)]
        ELSE IF quantity <= old_quantity
             THEN LET realized_pnl == FMul(quantity,
                                               FSub(RatInt(price), old_avg_cost))
                      new_quantity == old_quantity - quantity
                  IN  [position EXCEPT
                         !.realized_pnl = FAdd(@, realized_pnl),
                         !.quantity = new_quantity,
                         !.avg_cost = @]
             ELSE LET close_quantity == old_quantity
                      realized_pnl == FMul(close_quantity,
                                               FSub(RatInt(price), old_avg_cost))
                      remaining == quantity - close_quantity
                  IN  [position EXCEPT
                         !.realized_pnl = FAdd(@, realized_pnl),
                         !.quantity = 0 - remaining,
                         !.avg_cost = RatInt(price)]

\* _process_sell realizing the proceeds of a closed long without its cost
process_sell_gross(position, price, quantity) ==
    LET old_quantity == position.quantity
        old_avg_cost == position.avg_cost
    IN  IF old_quantity <= 0
        THEN LET total_cost == FAdd(FMul(Abs(old_quantity), old_avg_cost),
                                      FMul(quantity, RatInt(price)))
                 new_quantity == old_quantity - quantity
             IN  [position EXCEPT
                    !.quantity = new_quantity,
                    !.avg_cost = IF new_quantity # 0
                                 THEN FDiv(total_cost, Abs(new_quantity))
                                 ELSE RatInt(0)]
        ELSE IF quantity <= old_quantity
             THEN LET realized_pnl == FMul(quantity, RatInt(price))
                      new_quantity == old_quantity - quantity
                  IN  [position EXCEPT
                         !.realized_pnl = FAdd(@, realized_pnl),
                         !.quantity = new_quantity,
                         !.avg_cost = IF new_quantity = 0 THEN RatInt(0) ELSE @]
             ELSE LET close_quantity == old_quantity
                      realized_pnl == FMul(close_quantity,
                                               FSub(RatInt(price), old_avg_cost))
                      remaining == quantity - close_quantity
                  IN  [position EXCEPT
                         !.realized_pnl = FAdd(@, realized_pnl),
                         !.quantity = 0 - remaining,
                         !.avg_cost = RatInt(price)]

\* PnLCalculator._process_sell: the position after a sell
process_sell(position, price, quantity) ==
    LET old_quantity == position.quantity
        old_avg_cost == position.avg_cost
    IN  IF old_quantity <= 0
        THEN LET total_cost == FAdd(FMul(Abs(old_quantity), old_avg_cost),
                                      FMul(quantity, RatInt(price)))
                 new_quantity == old_quantity - quantity
             IN  [position EXCEPT
                    !.quantity = new_quantity,
                    !.avg_cost = IF new_quantity # 0
                                 THEN FDiv(total_cost, Abs(new_quantity))
                                 ELSE RatInt(0)]
        ELSE IF quantity <= old_quantity
             THEN LET realized_pnl == FMul(quantity,
                                               FSub(RatInt(price), old_avg_cost))
                      new_quantity == old_quantity - quantity
                  IN  [position EXCEPT
                         !.realized_pnl = FAdd(@, realized_pnl),
                         !.quantity = new_quantity,
                         !.avg_cost = IF new_quantity = 0 THEN RatInt(0) ELSE @]
             ELSE LET close_quantity == old_quantity
                      realized_pnl == FMul(close_quantity,
                                               FSub(RatInt(price), old_avg_cost))
                      remaining == quantity - close_quantity
                  IN  [position EXCEPT
                         !.realized_pnl = FAdd(@, realized_pnl),
                         !.quantity = 0 - remaining,
                         !.avg_cost = RatInt(price)]

\* calculate_unrealized_pnl valuing a short like a long of the same size
calculate_unrealized_pnl_long(position, current_price) ==
    IF position.quantity = 0 THEN RatInt(0)
    ELSE IF position.quantity > 0
         THEN FMul(position.quantity, FSub(RatInt(current_price), position.avg_cost))
         ELSE FMul(Abs(position.quantity),
                       FSub(RatInt(current_price), position.avg_cost))

\* PnLCalculator.calculate_unrealized_pnl
calculate_unrealized_pnl(position, current_price) ==
    IF position.quantity = 0 THEN RatInt(0)
    ELSE IF position.quantity > 0
         THEN FMul(position.quantity, FSub(RatInt(current_price), position.avg_cost))
         ELSE FMul(Abs(position.quantity),
                       FSub(position.avg_cost, RatInt(current_price)))

\* prices and sizes of the trade events, and the market prices a caller values
\* positions at
TradePrices == {1, 11}
TradeQuantities == {1, 2, 3}
MarkPrices == {1, 2, 3}

\* PnLCalculator.process_trade called without a trade_id (nothing is written to
\* the database).  Any side other than 'BUY' is processed as a sell.
process_trade(user_id, symbol, side, price, quantity) ==
    LET ps == get_position(positions, user_id, symbol)
        position == ps[<<user_id, symbol>>]
        after == IF side = "BUY" THEN process_buy(position, price, quantity)
                 ELSE process_sell(position, price, quantity)
    IN  /\ positions' = [ps EXCEPT ![<<user_id, symbol>>] = after]
        /\ fills' = Append(fills, [user_id |-> user_id, symbol |-> symbol,
                                    side |-> side, price |-> price,
                                    quantity |-> quantity, position |-> after])
        /\ ret' = [kind |-> "None"]
        /\ UNCHANGED <<current_prices, db_positions, pnl_history>>
        /\ UNCHANGED engine_vars
        /\ UNCHANGED recon_vars
        /\ UNCHANGED run_vars

\* a caller values a position it holds: calculate_unrealized_pnl(position, m)
UnrealizedCall ==
    \E key \in DOMAIN positions, current_price \in MarkPrices :
        /\ ret' = [kind |-> "float", key |-> key, current_price |-> current_price,
                   value |-> calculate_unrealized_pnl(positions[key], current_price)]
        /\ UNCHANGED <<positions, current_prices, fills, db_positions, pnl_history>>
        /\ UNCHANGED engine_vars
        /\ UNCHANGED recon_vars
        /\ UNCHANGED run_vars

\* trade events as the data model has them: a side, positive price and quantity
ProcessValid ==
    /\ Len(fills) < MaxFills
    /\ \E u \in Users, sym \in Symbols, side \in Sides, p \in TradePrices,
          q \in TradeQuantities :
          process_trade(u, sym, side, p, q)

\* the same events in shorter runs, with valuations in between
ProcessMark ==
    /\ Len(fills) < MaxFillsMark
    /\ \E u \in Users, sym \in Symbols, side \in Sides, p \in TradePrices,
          q \in TradeQuantities :
          process_trade(u, sym, side, p, q)

NextPnL == ProcessValid

SpecPnL == Init /\ [][NextPnL]_vars

NextMark == ProcessMark \/ UnrealizedCall

SpecMark == Init /\ [][NextMark]_vars

----------------------------------------------------------------------------
\* Properties of the P&L calculator

Keys == Users \X Symbols

KeyOf(e) == <<e.user_id, e.symbol>>

\* the step is a process_trade call; Event is the call, Before and After the
\* position of its key on either side of it
IsFill == Len(fills') = Len(fills) + 1
Event == fills'[Len(fills')]
Before ==
    IF KeyOf(Event) \in DOMAIN positions THEN positions[KeyOf(Event)]
    ELSE NewPosition(Event.user_id, Event.symbol)
After == positions'[KeyOf(Event)]

\* BUY quantities minus SELL quantities of a key over the first n calls
RECURSIVE NetQuantity(_, _)
NetQuantity(key, n) ==
    IF n = 0 THEN 0
    ELSE NetQuantity(key, n - 1) +
         (IF KeyOf(fills[n]) # key THEN 0
          ELSE IF fills[n].side = "BUY" THEN fills[n].quantity
          ELSE 0 - fills[n].quantity)

\* C12: after any sequence of process_trade events, the quantity of every
\* (user, symbol) position is the sum of the key's BUY quantities minus the sum
\* of its SELL quantities, flips through zero included.
PositionIsNetQuantity ==
    \A key \in Keys :
        IF key \in DOMAIN positions
        THEN positions[key].quantity = NetQuantity(key, Len(fills))
        ELSE NetQuantity(key, Len(fills)) = 0

\* C12 witness: a key that was long after one call is short after a later one
PositionIsNetQuantityWitness ==
    \E i, j \in 1..Len(fills) :
        /\ i < j
        /\ KeyOf(fills[i]) = KeyOf(fills[j])
        /\ fills[i].position.quantity > 0
        /\ fills[j].position.quantity < 0
        /\ positions[KeyOf(fills[j])].quantity < 0

\* the event adds to the position: a BUY on a quantity >= 0, a SELL on one <= 0
Extends ==
    \/ Event.side = "BUY" /\ Before.quantity >= 0
    \/ Event.side = "SELL" /\ Before.quantity =< 0

\* C13: a BUY on a position with quantity >= 0 (a SELL on one with quantity <= 0)
\* adds the fill to the size of the position, makes avg_cost the size-weighted
\* average (|old| * old_avg + qty * price) / (|old| + qty), and leaves
\* realized_pnl alone.
ExtendWeightedAverage ==
    [][(IsFill /\ Extends) =>
        LET size == Abs(Before.quantity) + Event.quantity
        IN  /\ Abs(After.quantity) = size
            /\ After.avg_cost =
               FDiv(FAdd(FMul(Abs(Before.quantity), Before.avg_cost),
                         FMul(Event.quantity, RatInt(Event.price))), size)
            /\ After.realized_pnl = Before.realized_pnl]_vars

\* C13 witness: a position built from fills at different prices, whose average
\* cost lies between the two
ExtendWeightedAverageWitness ==
    \E key \in DOMAIN positions :
        /\ positions[key].avg_cost.d > 1
        /\ Abs(positions[key].quantity) > 1

\* the event closes part or all of the position: a SELL of at most the size of
\* a long, a BUY of at most the size of a short
Closes ==
    \/ Event.side = "SELL" /\ Before.quantity > 0 /\ Event.quantity =< Before.quantity
    \/ Event.side = "BUY" /\ Before.quantity < 0 /\ Event.quantity =< Abs(Before.quantity)

\* what one unit of the position earns when closed at the price of the event:
\* price - old_avg for a long, old_avg - price for a short
UnitGain ==
    IF Before.quantity > 0
    THEN FSub(RatInt(Event.price), Before.avg_cost)
    ELSE FSub(Before.avg_cost, RatInt(Event.price))

\* realized_pnl grew by units * gain
RealizedGrewBy(units) ==
    After.realized_pnl = FAdd(Before.realized_pnl, FMul(units, UnitGain))

Flips ==
    \/ Event.side = "SELL" /\ Before.quantity > 0 /\ Event.quantity > Before.quantity
    \/ Event.side = "BUY" /\ Before.quantity < 0 /\ Event.quantity > Abs(Before.quantity)

\* C15: a fill larger than the open position it trades against flips it:
\* realized_pnl grows by |old_qty| times the per-unit gain of the closed side,
\* the new quantity has the size q - |old_qty| and the opposite sign, and
\* avg_cost is the price of the fill.
FlipRealizesAndReopens ==
    [][(IsFill /\ Flips) =>
        /\ RealizedGrewBy(Abs(Before.quantity))
        /\ Abs(After.quantity) = Event.quantity - Abs(Before.quantity)
        /\ (Before.quantity > 0) = (After.quantity < 0)
        /\ (Before.quantity < 0) = (After.quantity > 0)
        /\ After.avg_cost.n = Event.price /\ After.avg_cost.d = 1]_vars

\* C15 witness: a short that was flipped to a long by a BUY, with P&L realized
FlipRealizesAndReopensWitness ==
    \E i, j \in 1..Len(fills) :
        /\ i < j
        /\ KeyOf(fills[i]) = KeyOf(fills[j])
        /\ \A k \in (i + 1)..(j - 1) : KeyOf(fills[k]) # KeyOf(fills[i])
        /\ fills[i].position.quantity < 0
        /\ fills[j].side = "BUY"
        /\ fills[j].position.quantity > 0
        /\ fills[j].position.realized_pnl # fills[i].position.realized_pnl

\* C16 as stated: realized_pnl changes only if the event makes |quantity|
\* smaller; whenever |quantity| after the event is not smaller than before,
\* realized_pnl is unchanged.
RealizedOnlyOnReduce ==
    [][(IsFill /\ Abs(After.quantity) >= Abs(Before.quantity)) =>
        After.realized_pnl = Before.realized_pnl]_vars

\* the quantity changed sign across the event
Reverses ==
    \/ Before.quantity > 0 /\ After.quantity < 0
    \/ Before.quantity < 0 /\ After.quantity > 0

\* C16 amended: realized_pnl changes only if the event makes |quantity| smaller
\* or reverses the sign of the quantity; whenever |quantity| after the event is
\* not smaller than before and the sign has not reversed, realized_pnl is
\* unchanged.
RealizedOnlyOnClose ==
    [][(IsFill /\ Abs(After.quantity) >= Abs(Before.quantity) /\ ~Reverses) =>
        After.realized_pnl = Before.realized_pnl]_vars

\* the last call before call i on the same key (0: none)
PrevFill(i) ==
    LET earlier == {k \in 1..(i - 1) : KeyOf(fills[k]) = KeyOf(fills[i])}
    IN  IF earlier = {} THEN 0 ELSE CHOOSE k \in earlier : \A m \in earlier : m =< k

\* C16 witness: a position that had realized P&L was extended or reopened
\* without a change of sign, and another was flipped
RealizedOnlyOnCloseWitness ==
    /\ \E j \in 1..Len(fills) :
          /\ PrevFill(j) # 0
          /\ fills[PrevFill(j)].position.realized_pnl.n # 0
          /\ Abs(fills[j].position.quantity) > Abs(fills[PrevFill(j)].position.quantity)
          /\ fills[j].position.quantity * fills[PrevFill(j)].position.quantity >= 0
    /\ \E j \in 1..Len(fills) :
          /\ PrevFill(j) # 0
          /\ fills[j].position.quantity * fills[PrevFill(j)].position.quantity < 0

\* the quantities of the calls a..b that are on the key
RECURSIVE RunQuantity(_, _, _)
RunQuantity(key, a, b) ==
    IF a > b THEN 0
    ELSE (IF KeyOf(fills[a]) = key THEN fills[a].quantity ELSE 0)
         + RunQuantity(key, a + 1, b)

\* realized_pnl of the key of call i before that call
RealizedBefore(i) ==
    IF PrevFill(i) = 0 THEN RatInt(0) ELSE fills[PrevFill(i)].position.realized_pnl

\* calls i..m on a key open a position from flat, all on one side and at one
\* price, and the key's calls after m up to j close all of it from the other
\* side at that price
IsRoundTrip(i, m, j) ==
    LET key == KeyOf(fills[i])
    IN  /\ i =< m /\ m < j
        /\ KeyOf(fills[m]) = key /\ KeyOf(fills[j]) = key
        /\ PrevFill(i) = 0 \/ fills[PrevFill(i)].position.quantity = 0
        /\ \A k \in i..j :
              KeyOf(fills[k]) = key =>
                 /\ fills[k].price = fills[i].price
                 /\ (fills[k].side = fills[i].side) = (k =< m)
        /\ RunQuantity(key, i, m) = RunQuantity(key, m + 1, j)

\* C17 as stated: opening a position from flat, in one or several fills at a
\* price p, and then closing all of it at p leaves realized_pnl as it was (0 for
\* a fresh position), quantity 0 and avg_cost 0.
RoundTripExact ==
    \A i, m, j \in 1..Len(fills) :
        IsRoundTrip(i, m, j) =>
            /\ fills[j].position.realized_pnl = RealizedBefore(i)
            /\ fills[j].position.quantity = 0
            /\ fills[j].position.avg_cost.n = 0

\* C17 amended: such a round trip leaves quantity 0 and avg_cost 0, and leaves
\* realized_pnl as it was whenever the average cost of the opened position is
\* exactly p; the floating-point average cost can differ from p by rounding.
RoundTripUpToRounding ==
    \A i, m, j \in 1..Len(fills) :
        IsRoundTrip(i, m, j) =>
            /\ fills[m].position.avg_cost = RatInt(fills[i].price) =>
                  fills[j].position.realized_pnl = RealizedBefore(i)
            /\ fills[j].position.quantity = 0
            /\ fills[j].position.avg_cost.n = 0

\* C17 witness: a long opened in two fills at one price, the average cost being
\* that price, has been sold in one
RoundTripWitness ==
    \E i, m, j \in 1..Len(fills) :
        /\ IsRoundTrip(i, m, j)
        /\ i < m
        /\ fills[i].side = "BUY"
        /\ fills[m].position.avg_cost = RatInt(fills[i].price)
        /\ positions[KeyOf(fills[j])].quantity = 0

\* C18: calculate_unrealized_pnl(position, m) returns quantity * (m - avg_cost)
\* for a long, |quantity| * (avg_cost - m) for a short and 0 for a flat
\* position, and does not modify the position.
UnrealizedValue ==
    [][ret'.kind = "float" =>
        LET position == positions[ret'.key]
            m == RatInt(ret'.current_price)
        IN  /\ positions' = positions
            /\ position.quantity > 0 =>
                  ret'.value = FMul(position.quantity, FSub(m, position.avg_cost))
            /\ position.quantity < 0 =>
                  ret'.value = FMul(Abs(position.quantity), FSub(position.avg_cost, m))
            /\ position.quantity = 0 => ret'.value.n = 0]_vars

\* C18 witness: a short was valued at a loss, and is as it was
UnrealizedValueWitness ==
    /\ ret.kind = "float"
    /\ positions[ret.key].quantity < 0
    /\ ret.value.n < 0
    /\ positions[ret.key] = fills[Len(fills)].position

----------------------------------------------------------------------------
(***************************************************************************)
(* The reconciler (src/reconciliation.py).  It reads the trades of a date  *)
(* and, for each, the two orders the trade names, from the database.  The  *)
(* rows of the trades are given by the environment when the loop reaches   *)
(* them; the loop does not change them.  Reconciler.discrepancies and the  *)
(* check_date are not represented.                                         *)
(***************************************************************************)

\* no row: what _get_order returns for an id the table does not hold
None == [none |-> TRUE]

\* NULL in a timestamp column, which the schema allows: the row read has None
\* there.  No reading of a clock is negative.
NULL == 0 - 1

\* Reconciler._get_order
get_order(db, order_id) ==
    IF order_id \in DOMAIN db THEN db[order_id] ELSE None

\* _validate_trade looking at the prices before the sides
validate_trade_price_first(trade, buy_order, sell_order) ==
    IF buy_order = None THEN "Buy order not found"
    ELSE IF sell_order = None THEN "Sell order not found"
    ELSE IF buy_order.symbol # trade.symbol THEN "Buy order symbol mismatch"
    ELSE IF sell_order.symbol # trade.symbol THEN "Sell order symbol mismatch"
    ELSE IF trade.price > buy_order.price THEN "Trade price exceeds buy price"
    ELSE IF trade.price < sell_order.price THEN "Trade price below sell price"
    ELSE IF buy_order.side # "BUY" THEN "Buy order has incorrect side"
    ELSE IF sell_order.side # "SELL" THEN "Sell order has incorrect side"
    ELSE IF trade.quantity =< 0 THEN "Invalid trade quantity"
    ELSE IF trade.quantity > buy_order.quantity
         THEN "Trade quantity exceeds buy order quantity"
    ELSE IF trade.quantity > sell_order.quantity
         THEN "Trade quantity exceeds sell order quantity"
    ELSE IF trade.timestamp = NULL \/ buy_order.timestamp = NULL
         THEN "Validation error"
    ELSE IF trade.timestamp < buy_order.timestamp
         THEN "Trade timestamp before buy order timestamp"
    ELSE IF sell_order.timestamp = NULL THEN "Validation error"
    ELSE IF trade.timestamp < sell_order.timestamp
         THEN "Trade timestamp before sell order timestamp"
    ELSE ""

\* Reconciler._validate_trade on the rows it fetched: the error message, ""
\* when the trade is valid.  The messages stand without the values the code
\* formats into them.  Comparing a NULL timestamp
\* raises TypeError, which the except clause turns into "Validation error".
validate_trade(trade, buy_order, sell_order) ==
    IF buy_order = None THEN "Buy order not found"
    ELSE IF sell_order = None THEN "Sell order not found"
    ELSE IF buy_order.symbol # trade.symbol THEN "Buy order symbol mismatch"
    ELSE IF sell_order.symbol # trade.symbol THEN "Sell order symbol mismatch"
    ELSE IF buy_order.side # "BUY" THEN "Buy order has incorrect side"
    ELSE IF sell_order.side # "SELL" THEN "Sell order has incorrect side"
    ELSE IF trade.price > buy_order.price THEN "Trade price exceeds buy price"
    ELSE IF trade.price < sell_order.price THEN "Trade price below sell price"
    ELSE IF trade.quantity =< 0 THEN "Invalid trade quantity"
    ELSE IF trade.quantity > buy_order.quantity
         THEN "Trade quantity exceeds buy order quantity"
    ELSE IF trade.quantity > sell_order.quantity
         THEN "Trade quantity exceeds sell order quantity"
    ELSE IF trade.timestamp = NULL \/ buy_order.timestamp = NULL
         THEN "Validation error"
    ELSE IF trade.timestamp < buy_order.timestamp
         THEN "Trade timestamp before buy order timestamp"
    ELSE IF sell_order.timestamp = NULL THEN "Validation error"
    ELSE IF trade.timestamp < sell_order.timestamp
         THEN "Trade timestamp before sell order timestamp"
    ELSE ""

\* The percentages of the reconciler are floats of PercentBits significant
\* bits: fine enough for round(.., 2) to move a value, which it cannot do to
\* the coarser floats of the P&L ticks.
PercentTop == Pow2(PercentBits)
PercentLow == Pow2(PercentBits - 1)
Percent(a) == FloatOf(a, PercentTop, PercentLow)

\* the accuracy returned without being rounded
accuracy_unrounded(x) == x

\* accuracy = matched_trades / total_trades * 100, for total_trades > 0
accuracy(matched_trades, total_trades) ==
    Percent(RatScale(100, Percent(Rat(matched_trades, total_trades))))

\* round(x, 2) for x >= 0: the float nearest to x rounded to two decimals
round2(x) == Percent(Rat(RoundHalfEven(100 * x.n, x.d), 100))

\* rows of the orders table: ids 1 and 2, every symbol and side, prices, sizes
\* and times around those of the trades
DbOrderRows(id) ==
    [order_id : {id}, symbol : Symbols, side : Sides, price : {1, 2, 3},
     quantity : {1, 2}, timestamp : {1, 2}]

DbOrderTables ==
    {[id \in {1, 2} |-> IF id = 1 THEN r1 ELSE r2] :
        r1 \in DbOrderRows(1), r2 \in DbOrderRows(2)}

\* rows of the trades table: the id the table gave the row, references to the
\* two orders or to an order that is not there (3), and a size
DbTradeRows(id) ==
    [trade_id : {id}, buy_order_id : {1, 3}, sell_order_id : {2, 3},
     symbol : {"AAPL"}, price : {2}, quantity : {0, 1, 2}, timestamp : {1}]

\* the orders table is filled (DatabaseConnection.bulk_insert_orders), with
\* whatever rows the writer gave it
InsertOrders ==
    /\ db_orders = <<>>
    /\ recon.pc = "idle"
    /\ db_orders' \in DbOrderTables
    /\ UNCHANGED <<recon, reconciliation_log, result, runs, fetch>>
    /\ UNCHANGED engine_vars
    /\ UNCHANGED pnl_vars
    /\ UNCHANGED run_vars

\* Reconciler.reconcile_trades up to its loop, total_trades being the number of
\* trades read for the date: with none it returns at once, accuracy 100.0, and
\* logs nothing
reconcile_trades(total_trades) ==
    /\ runs' = runs + 1
    /\ IF total_trades = 0
       THEN /\ result' = [total_trades |-> 0, matched_trades |-> 0,
                          discrepancies |-> 0, accuracy |-> RatInt(100),
                          issues |-> <<>>]
            /\ recon' = [pc |-> "done"]
       ELSE /\ recon' = [pc |-> "loop", total_trades |-> total_trades,
                         matched_trades |-> 0, issues |-> <<>>,
                         n |-> 0, trade |-> None, read_errors |-> {}]
            /\ result' = result
    /\ UNCHANGED <<db_orders, reconciliation_log>>
    /\ UNCHANGED engine_vars
    /\ UNCHANGED pnl_vars
    /\ UNCHANGED run_vars

\* the one reconciliation of a run of the simulator
ReconcileStart ==
    /\ recon.pc = "idle"
    /\ UNCHANGED fetch
    /\ \E total_trades \in 0..MaxDbTrades : reconcile_trades(total_trades)

\* _get_order answering a query that raised as if it had not
get_order_despite_error(db, order_id, read_errors) == get_order(db, order_id)

\* Reconciler._get_order with its except clause: None when the query raised,
\* read_errors being the order ids for which it does
get_order_or_none(db, order_id, read_errors) ==
    IF order_id \in read_errors THEN None ELSE get_order(db, order_id)

\* one iteration of the loop of reconcile_trades on the row trade; read_errors
\* holds the order ids for which the query of _get_order raises
validate_next(trade, read_errors) ==
    LET buy_order == get_order_or_none(db_orders, trade.buy_order_id, read_errors)
        sell_order == get_order_or_none(db_orders, trade.sell_order_id, read_errors)
        error_msg == validate_trade(trade, buy_order, sell_order)
    IN  /\ recon' = [recon EXCEPT
                        !.n = @ + 1,
                        !.trade = trade,
                        !.read_errors = read_errors,
                        !.matched_trades = IF error_msg = "" THEN @ + 1 ELSE @,
                        !.issues = IF error_msg = "" THEN @
                                   ELSE Append(@, [trade_id |-> trade.trade_id,
                                                   error |-> error_msg,
                                                   timestamp |-> trade.timestamp])]
        /\ UNCHANGED <<db_orders, reconciliation_log, result, runs, fetch>>
        /\ UNCHANGED engine_vars
        /\ UNCHANGED pnl_vars
        /\ UNCHANGED run_vars

\* an iteration on the next row of the trades, the store answering every query
ValidateNext ==
    /\ recon.pc = "loop"
    /\ recon.n < recon.total_trades
    /\ \E trade \in DbTradeRows(recon.n + 1) : validate_next(trade, {})

\* reconcile_trades after its loop: the run is logged (an error of the insert is
\* swallowed) and the result returned
ReconcileFinish ==
    /\ recon.pc = "loop"
    /\ recon.n = recon.total_trades
    /\ LET discrepancies == recon.total_trades - recon.matched_trades
           acc == accuracy(recon.matched_trades, recon.total_trades)
       IN  /\ \E logged \in BOOLEAN :
                reconciliation_log' =
                    IF logged
                    THEN Append(reconciliation_log,
                                [total_trades |-> recon.total_trades,
                                 matched_trades |-> recon.matched_trades,
                                 discrepancies |-> discrepancies,
                                 accuracy |-> acc])
                    ELSE reconciliation_log
           /\ result' = [total_trades |-> recon.total_trades,
                         matched_trades |-> recon.matched_trades,
                         discrepancies |-> discrepancies,
                         accuracy |-> round2(acc),
                         issues |-> recon.issues]
           /\ recon' = [pc |-> "done"]
    /\ UNCHANGED <<db_orders, runs, fetch>>
    /\ UNCHANGED engine_vars
    /\ UNCHANGED pnl_vars
    /\ UNCHANGED run_vars

NextRecon == InsertOrders \/ ReconcileStart \/ ValidateNext \/ ReconcileFinish

SpecRecon == Init /\ [][NextRecon]_vars

\* Reconciliations over a store that can fail a query and can hold NULL in a
\* timestamp column: a buy order and a sell order that agree with the trades,
\* the buy order's timestamp possibly NULL
FaultyOrderTables ==
    {[id \in {1, 2} |->
        IF id = 1
        THEN [order_id |-> 1, symbol |-> "AAPL", side |-> "BUY", price |-> 2,
              quantity |-> 2, timestamp |-> ts]
        ELSE [order_id |-> 2, symbol |-> "AAPL", side |-> "SELL", price |-> 1,
              quantity |-> 2, timestamp |-> 1]] : ts \in {1, NULL}}

\* rows of the trades table that name the two orders, or a buy order that is
\* not there (3)
FaultyTradeRows(id) ==
    [trade_id : {id}, buy_order_id : {1, 3}, sell_order_id : {2},
     symbol : {"AAPL"}, price : {2}, quantity : {1}, timestamp : {1}]

InsertFaulty ==
    /\ db_orders = <<>>
    /\ recon.pc = "idle"
    /\ db_orders' \in FaultyOrderTables
    /\ UNCHANGED <<recon, reconciliation_log, result, runs, fetch>>
    /\ UNCHANGED engine_vars
    /\ UNCHANGED pnl_vars
    /\ UNCHANGED run_vars

\* one reconciliation of up to MaxAuditTrades trades; 0 is also what
\* _get_trades_for_date makes of a query that raised
ReconcileLong ==
    /\ recon.pc = "idle"
    /\ UNCHANGED fetch
    /\ \E total_trades \in 0..MaxAuditTrades : reconcile_trades(total_trades)

\* an iteration of the loop in which the queries of _get_order may raise
ValidateFaulty ==
    /\ recon.pc = "loop"
    /\ recon.n < recon.total_trades
    /\ \E trade \in FaultyTradeRows(recon.n + 1) :
          \E read_errors \in SUBSET {trade.buy_order_id, trade.sell_order_id} :
              validate_next(trade, read_errors)

NextFaulty == InsertFaulty \/ ReconcileLong \/ ValidateFaulty \/ ReconcileFinish

SpecFaulty == Init /\ [][NextFaulty]_vars

\* Several reconciliations, one after the other, of a store that answers
\* every query
ReconcileAgain ==
    /\ recon.pc \in {"idle", "done"}
    /\ runs < MaxRuns
    /\ UNCHANGED fetch
    /\ \E total_trades \in 0..MaxDbTrades : reconcile_trades(total_trades)

ValidateAgain ==
    /\ recon.pc = "loop"
    /\ recon.n < recon.total_trades
    /\ \E trade \in FaultyTradeRows(recon.n + 1) : validate_next(trade, {})

NextAudit == InsertFaulty \/ ReconcileAgain \/ ValidateAgain \/ ReconcileFinish

SpecAudit == Init /\ [][NextAudit]_vars

----------------------------------------------------------------------------
\* Properties of the reconciler

\* the engine's orders os as the rows the reconciler reads
OrderRows(os) ==
    [id \in {os[r].order_id : r \in 1..Len(os)} |->
        LET o == OrderOf(os, id)
        IN  [order_id |-> o.order_id, symbol |-> o.symbol, side |-> o.side,
             price |-> o.price, quantity |-> o.quantity,
             timestamp |-> o.timestamp]]

\* the message _validate_trade has for a trade checked against the rows
TradeError(t, rows) ==
    validate_trade(t, get_order(rows, t.buy_order_id),
                   get_order(rows, t.sell_order_id))

\* what reconcile_trades computes and returns as the accuracy of a run that
\* matched all its n trades, for the run lengths of the engine specifications
AllMatched ==
    [n \in 1..(MaxOrders + MaxOrdersDeep) |->
        [accuracy |-> accuracy(n, n), rounded |-> round2(accuracy(n, n))]]

\* a reconciliation of the trades ts against the orders os reports no issue
\* and, when there is a trade, an accuracy of 100.0
TradesReconcile(ts, os) ==
    /\ LET rows == OrderRows(os)
       IN  \A i \in 1..Len(ts) : TradeError(ts[i], rows) = ""
    /\ ts # <<>> =>
          /\ AllMatched[Len(ts)].accuracy = RatInt(100)
          /\ AllMatched[Len(ts)].rounded = RatInt(100)

Existence(t, b, s) == b # None /\ s # None
SymbolAgreement(t, b, s) == b.symbol = t.symbol /\ s.symbol = t.symbol
SideCorrectness(t, b, s) == b.side = "BUY" /\ s.side = "SELL"
PriceBand(t, b, s) == s.price =< t.price /\ t.price =< b.price
QuantitySanity(t, b, s) ==
    t.quantity > 0 /\ t.quantity =< b.quantity /\ t.quantity =< s.quantity
CausalOrdering(t, b, s) ==
    t.timestamp >= b.timestamp /\ t.timestamp >= s.timestamp

\* the number of the first check that fails, 0 when all six pass
FirstFailing(t, b, s) ==
    IF ~Existence(t, b, s) THEN 1
    ELSE IF ~SymbolAgreement(t, b, s) THEN 2
    ELSE IF ~SideCorrectness(t, b, s) THEN 3
    ELSE IF ~PriceBand(t, b, s) THEN 4
    ELSE IF ~QuantitySanity(t, b, s) THEN 5
    ELSE IF ~CausalOrdering(t, b, s) THEN 6
    ELSE 0

\* the check a reason belongs to
CheckOf(error) ==
    IF error \in {"Buy order not found", "Sell order not found"} THEN 1
    ELSE IF error \in {"Buy order symbol mismatch", "Sell order symbol mismatch"} THEN 2
    ELSE IF error \in {"Buy order has incorrect side",
                       "Sell order has incorrect side"} THEN 3
    ELSE IF error \in {"Trade price exceeds buy price",
                       "Trade price below sell price"} THEN 4
    ELSE IF error \in {"Invalid trade quantity",
                       "Trade quantity exceeds buy order quantity",
                       "Trade quantity exceeds sell order quantity"} THEN 5
    ELSE IF error \in {"Trade timestamp before buy order timestamp",
                       "Trade timestamp before sell order timestamp"} THEN 6
    ELSE 0

\* C20: for each trade the reconciler applies the checks in the order
\* existence, symbol agreement, side correctness, price band, quantity sanity,
\* causal ordering, and records exactly one discrepancy with the reason of the
\* first failing check; the trade is matched iff all six pass; whatever was
\* recorded for earlier trades neither changes nor influences the outcome.
FirstFailureReported ==
    [][(recon.pc = "loop" /\ recon'.pc = "loop" /\ recon'.n = recon.n + 1) =>
        LET t == recon'.trade
            k == FirstFailing(t, get_order(db_orders, t.buy_order_id),
                              get_order(db_orders, t.sell_order_id))
        IN  IF k = 0
            THEN /\ recon'.matched_trades = recon.matched_trades + 1
                 /\ recon'.issues = recon.issues
            ELSE /\ recon'.matched_trades = recon.matched_trades
                 /\ Len(recon'.issues) = Len(recon.issues) + 1
                 /\ SubSeq(recon'.issues, 1, Len(recon.issues)) = recon.issues
                 /\ recon'.issues[Len(recon'.issues)].trade_id = t.trade_id
                 /\ CheckOf(recon'.issues[Len(recon'.issues)].error) = k]_vars

\* C20 witness: a run of two trades has returned; the first names an order
\* that is not there and was recorded for that, the second was matched
FirstFailureReportedWitness ==
    /\ recon.pc = "done"
    /\ result.total_trades = 2
    /\ result.matched_trades = 1
    /\ Len(result.issues) = 1
    /\ result.issues[1].trade_id = 1
    /\ result.issues[1].error = "Sell order not found"

\* what reconcile_trades computes as the accuracy of a run
ComputedAccuracy(r) ==
    IF r.total_trades = 0 THEN RatInt(100)
    ELSE accuracy(r.matched_trades, r.total_trades)

\* the counts of a returned result add up, and it has one issue a discrepancy
CountsAgree(r) ==
    /\ r.matched_trades + r.discrepancies = r.total_trades
    /\ Len(r.issues) = r.discrepancies

\* C21 as stated: the result of a run reports accuracy = matched_trades /
\* total_trades * 100, 100.0 for a run without trades, with matched_trades +
\* discrepancies = total_trades and as many issues as discrepancies.
AccuracyReportedExact ==
    recon.pc = "done" =>
        /\ result.accuracy = ComputedAccuracy(result)
        /\ CountsAgree(result)

\* y is the float of a whole number of hundredths that is nearest to x >= 0
IsHundredthOf(y, x) ==
    LET below == (100 * x.n) \div x.d
    IN  \E h \in {below, below + 1} :
            /\ 2 * Abs(100 * x.n - h * x.d) =< x.d
            /\ y = Percent(Rat(h, 100))

\* C21: the result of a run reports matched_trades / total_trades * 100
\* rounded to two decimals, 100.0 for a run without trades, with
\* matched_trades + discrepancies = total_trades and as many issues as
\* discrepancies.
AccuracyReportedRounded ==
    recon.pc = "done" =>
        /\ IsHundredthOf(result.accuracy, ComputedAccuracy(result))
        /\ CountsAgree(result)

\* C21 witness: a run of three trades matched one of them and returned an
\* accuracy that is not the quotient it computed
AccuracyReportedWitness ==
    /\ recon.pc = "done"
    /\ result.total_trades = 3
    /\ result.matched_trades = 1
    /\ Len(result.issues) = 2
    /\ result.accuracy # accuracy(1, 3)

\* a step in which a reconcile_trades call returns
RunReturns == recon'.pc = "done" /\ (recon.pc # "done" \/ runs' # runs)

\* C22: every run of reconcile_trades, whatever the number of trades found for
\* the date, appends exactly one record (total_trades, matched_trades,
\* discrepancies, accuracy) of the run to the reconciliation log, and no step
\* modifies or removes an earlier record.
AuditLogEveryRun ==
    [][IF RunReturns
       THEN /\ Len(reconciliation_log') = Len(reconciliation_log) + 1
            /\ SubSeq(reconciliation_log', 1, Len(reconciliation_log))
                  = reconciliation_log
            /\ LET record == reconciliation_log'[Len(reconciliation_log')]
               IN  /\ record.total_trades = result'.total_trades
                   /\ record.matched_trades = result'.matched_trades
                   /\ record.discrepancies = result'.discrepancies
       ELSE reconciliation_log' = reconciliation_log]_vars

\* an iteration of the loop of reconcile_trades has been made
Validates == recon.pc = "loop" /\ recon'.pc = "loop" /\ recon'.n = recon.n + 1

\* the iteration recorded one discrepancy, for its trade, with this reason
RecordsOnly(error) ==
    /\ recon'.matched_trades = recon.matched_trades
    /\ recon'.issues = Append(recon.issues,
                              [trade_id |-> recon'.trade.trade_id,
                               error |-> error,
                               timestamp |-> recon'.trade.timestamp])

\* C23: reconcile_trades always completes with a result: it makes one
\* iteration for each trade, none of which can fail, and then returns.  Every
\* iteration takes the next trade, of which there is one left, and leaves what
\* earlier trades got untouched; a query of an
\* order that raised makes the trade a discrepancy reported as that order not
\* found, a comparison that raised makes it a discrepancy reported as a
\* validation error, and a trade whose checks pass on rows that were read is
\* matched; the run returns only after the last trade, with every trade either
\* matched or among the issues.
StoreErrorsContained ==
    [][/\ recon'.pc = "loop" => recon'.n \in 0..recon'.total_trades
       /\ recon.pc = "loop" => Validates \/ recon'.pc = "done"
       /\ Validates =>
           LET t == recon'.trade
               b == get_order(db_orders, t.buy_order_id)
               s == get_order(db_orders, t.sell_order_id)
           IN  /\ t.trade_id = recon.n + 1
               /\ recon'.total_trades = recon.total_trades
               /\ IF t.buy_order_id \in recon'.read_errors
                  THEN RecordsOnly("Buy order not found")
                  ELSE IF b = None THEN RecordsOnly("Buy order not found")
                  ELSE IF t.sell_order_id \in recon'.read_errors
                  THEN RecordsOnly("Sell order not found")
                  ELSE IF b.timestamp = NULL
                  THEN RecordsOnly("Validation error")
                  ELSE IF FirstFailing(t, b, s) = 0
                  THEN /\ recon'.matched_trades = recon.matched_trades + 1
                       /\ recon'.issues = recon.issues
                  ELSE /\ recon'.matched_trades = recon.matched_trades
                       /\ Len(recon'.issues) = Len(recon.issues) + 1
       /\ (recon.pc = "loop" /\ recon'.pc = "done") =>
             /\ recon.n = recon.total_trades
             /\ result'.total_trades = recon.total_trades
             /\ result'.matched_trades + Len(result'.issues)
                    = recon.total_trades]_vars

\* C23 witness: a run of three trades has returned; the query of the buy order
\* raised for the first trade, which was recorded as order not found, and the
\* two trades after it were matched
StoreErrorsContainedWitness ==
    /\ recon.pc = "done"
    /\ db_orders # <<>>
    /\ result.total_trades = 3
    /\ result.matched_trades = 2
    /\ result.issues = <<[trade_id |-> 1, error |-> "Buy order not found",
                          timestamp |-> 1]>>

----------------------------------------------------------------------------
\* Error handling of submit_order

\* a step that is a submit_order call: they are made when no call is in progress
\* and either start the matching or raise
IsSubmitCall == pc = "idle" /\ (pc' = "match" \/ <<call', now'>> # <<call, now>>)

\* C24: a submit_order call whose side string is neither BUY nor SELL raises an
\* error to the caller and the order is not accepted: next_order_id,
\* order_count, the orders, all order books and the trade list stay as they
\* were; a call with BUY or SELL raises nothing and its order is taken.
UnknownSideRejected ==
    [][IsSubmitCall =>
        IF call'.side \in {"BUY", "SELL"}
        THEN /\ call'.raised = "None"
             /\ next_order_id' = next_order_id + 1
             /\ Len(orders') = Len(orders) + 1
             /\ orders'[Len(orders')].side = call'.side
        ELSE /\ call'.raised = "ValueError"
             /\ UNCHANGED <<orders, order_books, trades, next_order_id,
                            next_trade_id, order_count, pc, cur>>]_vars

\* C24 witness: a call with an unknown side has raised while an order rests in
\* a book
UnknownSideRejectedWitness ==
    /\ call.raised = "ValueError"
    /\ call.side = "HOLD"
    /\ pc = "idle"
    /\ order_count = 1
    /\ \E sym \in DOMAIN order_books : order_books[sym].buy_orders # <<>>

\* C25: submit_order with a non-positive price, a non-positive quantity or an
\* empty symbol is rejected: such a call consumes no order id and puts no order
\* in a book, so no order of the engine has a price or quantity that is not
\* positive or an empty symbol, and no trade has a quantity that is not positive.
InvalidOrdersRejected ==
    /\ \A r \in Refs :
          /\ orders[r].price > 0
          /\ orders[r].quantity > 0
          /\ orders[r].symbol # ""
    /\ \A i \in TradeIds : trades[i].quantity > 0

----------------------------------------------------------------------------
\* The order book snapshot

\* orders submitted in a run of SpecBook
MaxOrdersBook == 3

\* three price levels, so that two buys at different prices can rest below a sell
BookPrices == {1, 2, 3}

\* the number of orders of a side that get_order_book_snapshot lists
SnapshotDepth == 10

\* where a stable sort by Order.__lt__ puts x in a list it has sorted already:
\* before the first element that x comes before, after its equals
RECURSIVE sort_insert(_, _, _, _)
sort_insert(os, done, x, reverse) ==
    IF done = <<>>
    THEN <<x>>
    ELSE LET y == Head(done)
             before == IF reverse THEN Lt(os[y], os[x]) ELSE Lt(os[x], os[y])
         IN  IF before
             THEN <<x>> \o done
             ELSE <<y>> \o sort_insert(os, Tail(done), x, reverse)

\* sorted(heap) and sorted(heap, reverse=True) on a list of orders
RECURSIVE sorted(_, _, _)
sorted(os, list, reverse) ==
    IF list = <<>>
    THEN <<>>
    ELSE sort_insert(os, sorted(os, SubSeq(list, 1, Len(list) - 1), reverse),
                     list[Len(list)], reverse)

\* the list comprehension of get_order_book_snapshot over one sorted side
snapshot_side(os, list) ==
    LET top == SubSeq(list, 1, Min(Len(list), SnapshotDepth))
        active(ref) == remaining_quantity(os[ref]) > 0
        kept == SelectSeq(top, active)
    IN  [i \in 1..Len(kept) |->
            [order_id |-> os[kept[i]].order_id,
             price |-> os[kept[i]].price,
             quantity |-> remaining_quantity(os[kept[i]])]]

\* MatchingEngine.get_order_book_snapshot
get_order_book_snapshot(symbol) ==
    /\ pc = "idle"
    /\ snapshot' =
          [symbol |-> symbol,
           returned |->
              IF symbol \notin DOMAIN order_books
              THEN [buy_orders |-> <<>>, sell_orders |-> <<>>]
              ELSE LET order_book == order_books[symbol]
                       buy_orders ==
                           snapshot_side(orders,
                                         sorted(orders, order_book.buy_orders, TRUE))
                       sell_orders ==
                           snapshot_side(orders,
                                         sorted(orders, order_book.sell_orders, FALSE))
                   IN  [symbol |-> symbol,
                        buy_orders |-> buy_orders,
                        sell_orders |-> sell_orders,
                        spread |-> IF buy_orders # <<>> /\ sell_orders # <<>>
                                   THEN sell_orders[1].price - buy_orders[1].price
                                   ELSE 0]]
    /\ UNCHANGED <<orders, order_books, trades, next_order_id, next_trade_id,
                   order_count, now, pc, cur, call>>
    /\ UNCHANGED pnl_vars
    /\ UNCHANGED recon_vars
    /\ UNCHANGED run_vars

SubmitBook ==
    /\ Len(orders) < MaxOrdersBook
    /\ \E u \in Users, sym \in Symbols, side \in Sides, p \in BookPrices,
          q \in Quantities :
          submit_order(u, sym, side, p, q)

SnapshotCall == \E symbol \in Symbols : get_order_book_snapshot(symbol)

NextBook == SubmitBook \/ MatchIteration \/ SubmitReturn \/ SnapshotCall

SpecBook == Init /\ [][NextBook]_vars

\* the orders of a heap that still have a quantity to fill
Resting(os, heap) ==
    {heap[i] : i \in {j \in DOMAIN heap : remaining_quantity(os[heap[j]]) > 0}}

\* a listing shows the best-priority orders of a side, as many as the depth
\* allows, each once and with its remaining quantity
IsTopOf(os, listing, refs) ==
    /\ Len(listing) = Min(SnapshotDepth, Cardinality(refs))
    /\ \A i \in DOMAIN listing :
          \E r \in refs :
             /\ listing[i] = [order_id |-> os[r].order_id, price |-> os[r].price,
                              quantity |-> remaining_quantity(os[r])]
             /\ \A u \in refs :
                   (\A j \in DOMAIN listing : listing[j].order_id # os[u].order_id)
                      => ~Lt(os[u], os[r])
    /\ \A i, j \in DOMAIN listing :
          i # j => listing[i].order_id # listing[j].order_id

\* C26: a snapshot of a symbol that has a book lists, for each side, the
\* up-to-10 best-priority resting orders with their remaining quantities, buys
\* from the highest price down and sells from the lowest price up; its spread
\* is the lowest resting sell price minus the highest resting buy price, 0 when
\* a side is empty; the call changes neither the book nor the orders.
TopOfBookSnapshot ==
    [][(snapshot' # snapshot /\ snapshot'.symbol \in DOMAIN order_books) =>
          LET book == order_books[snapshot'.symbol]
              r == snapshot'.returned
              buys == Resting(orders, book.buy_orders)
              sells == Resting(orders, book.sell_orders)
          IN  /\ IsTopOf(orders, r.buy_orders, buys)
              /\ IsTopOf(orders, r.sell_orders, sells)
              /\ \A i \in 1..(Len(r.buy_orders) - 1) :
                    r.buy_orders[i].price >= r.buy_orders[i + 1].price
              /\ \A i \in 1..(Len(r.sell_orders) - 1) :
                    r.sell_orders[i].price <= r.sell_orders[i + 1].price
              /\ r.spread = IF buys = {} \/ sells = {}
                            THEN 0
                            ELSE orders[book.sell_orders[1]].price
                                 - orders[book.buy_orders[1]].price
              /\ UNCHANGED <<orders, order_books>>]_vars

----------------------------------------------------------------------------
\* Determinism of the trade stream

\* the engine run as a function of the arguments of its submit_order calls, on
\* a clock that ticks once per call: _match_orders from a state st of the
\* engine's orders, books and trades
RECURSIVE replay_match(_, _, _)
replay_match(st, symbol, timestamp) ==
    LET order_book == st.order_books[symbol]
    IN  IF ~can_match(st.orders, order_book)
        THEN st
        ELSE LET b == order_book.buy_orders[1]
                 s == order_book.sell_orders[1]
                 buy_order == st.orders[b]
                 sell_order == st.orders[s]
                 qty == trade_quantity(buy_order, sell_order)
                 trade == [trade_id |-> Len(st.trades) + 1,
                           buy_order_id |-> buy_order.order_id,
                           sell_order_id |-> sell_order.order_id,
                           symbol |-> order_book.symbol,
                           price |-> trade_price(buy_order, sell_order),
                           quantity |-> qty,
                           timestamp |-> timestamp]
                 os == [st.orders EXCEPT ![b] = fill(@, qty), ![s] = fill(@, qty)]
             IN  replay_match([orders |-> os,
                               order_books |->
                                  [st.order_books EXCEPT
                                      ![symbol] = remove_filled_orders(os, @)],
                               trades |-> Append(st.trades, trade)],
                              symbol, timestamp)

\* submit_order(a.user_id, a.symbol, a.side, a.price, a.quantity) at clock
\* reading timestamp, from a state st
replay_submit(st, a, timestamp) ==
    LET order == [order_id |-> Len(st.orders) + 1, user_id |-> a.user_id,
                  symbol |-> a.symbol, side |-> a.side, price |-> a.price,
                  quantity |-> a.quantity, timestamp |-> timestamp,
                  status |-> "PENDING", filled_quantity |-> 0]
        ref == Len(st.orders) + 1
        os == Append(st.orders, order)
        books == get_or_create_order_book(st.order_books, a.symbol)
    IN  replay_match([orders |-> os,
                      order_books |-> [books EXCEPT ![a.symbol] = add_order(os, @, ref)],
                      trades |-> st.trades],
                     a.symbol, timestamp)

\* the first n calls of a sequence of calls, the n-th at clock reading n
RECURSIVE Replay(_, _)
Replay(calls, n) ==
    IF n = 0
    THEN [orders |-> <<>>, order_books |-> <<>>, trades |-> <<>>]
    ELSE replay_submit(Replay(calls, n - 1), calls[n], n)

\* a trade list without its clock readings
TradeStream(ts) ==
    [i \in 1..Len(ts) |->
        [trade_id |-> ts[i].trade_id, buy_order_id |-> ts[i].buy_order_id,
         sell_order_id |-> ts[i].sell_order_id, symbol |-> ts[i].symbol,
         price |-> ts[i].price, quantity |-> ts[i].quantity]]

\* C27: the trade stream is a function of the sequence of submit_order
\* arguments alone: whatever the clock read, the trades emitted once the calls
\* have returned are those of the same calls made on a clock that ticks once
\* per call, so any two engines given the same calls emit the same trades.
DeterministicTradeStream ==
    pc = "idle" =>
       TradeStream(trades) = TradeStream(Replay(orders, Len(orders)).trades)

----------------------------------------------------------------------------
\* Persisted positions

\* process_trade calls in a run of SpecStore
MaxFillsStore == 2

\* round half away from zero to an integer
RoundHalfAway(n, d) ==
    LET a == Abs(n)
        q == (2 * a + d) \div (2 * d)
    IN  IF n < 0 THEN 0 - q ELSE q

\* a value as a DECIMAL(m, 2) column stores it
Decimal2(x) == Rat(RoundHalfAway(100 * x.n, x.d), 100)

\* DatabaseManager.upsert_position: INSERT ... ON DUPLICATE KEY UPDATE
upsert_position(table, user_id, symbol, quantity_delta, avg_cost, realized_pnl_delta) ==
    LET key == <<user_id, symbol>>
    IN  IF key \in DOMAIN table
        THEN [table EXCEPT
                 ![key].quantity = @ + quantity_delta,
                 ![key].avg_cost = Decimal2(avg_cost),
                 ![key].realized_pnl = RatAdd(@, Decimal2(realized_pnl_delta))]
        ELSE DictSet(table, key,
                     [user_id |-> user_id, symbol |-> symbol,
                      quantity |-> quantity_delta,
                      avg_cost |-> Decimal2(avg_cost),
                      realized_pnl |-> Decimal2(realized_pnl_delta)])

\* PnLCalculator.process_trade called with a trade_id: the position is updated
\* and, when the trade_id is not 0, _update_position_in_db writes it to the
\* positions table and, when it has realized P&L, adds a pnl_history row
process_trade_with_id(user_id, symbol, side, price, quantity, trade_id) ==
    LET ps == get_position(positions, user_id, symbol)
        position == ps[<<user_id, symbol>>]
        after == IF side = "BUY" THEN process_buy(position, price, quantity)
                 ELSE process_sell(position, price, quantity)
    IN  /\ positions' = [ps EXCEPT ![<<user_id, symbol>>] = after]
        /\ fills' = Append(fills, [user_id |-> user_id, symbol |-> symbol,
                                    side |-> side, price |-> price,
                                    quantity |-> quantity, position |-> after,
                                    trade_id |-> trade_id])
        /\ ret' = [kind |-> "None"]
        /\ IF trade_id # 0
           THEN /\ db_positions' =
                      upsert_position(db_positions, after.user_id, after.symbol,
                                      after.quantity, after.avg_cost,
                                      after.realized_pnl)
                /\ pnl_history' =
                      IF after.realized_pnl # RatInt(0)
                      THEN Append(pnl_history,
                                  [user_id |-> after.user_id, symbol |-> after.symbol,
                                   trade_id |-> trade_id,
                                   realized_pnl |-> Decimal2(after.realized_pnl)])
                      ELSE pnl_history
           ELSE UNCHANGED <<db_positions, pnl_history>>
        /\ UNCHANGED current_prices
        /\ UNCHANGED engine_vars
        /\ UNCHANGED recon_vars
        /\ UNCHANGED run_vars

\* trade events of the data model, with the id of the trade or with 0
ProcessStored ==
    /\ Len(fills) < MaxFillsStore
    /\ \E u \in Users, sym \in Symbols, side \in Sides, p \in TradePrices,
          q \in TradeQuantities, trade_id \in {0, Len(fills) + 1} :
          process_trade_with_id(u, sym, side, p, q, trade_id)

NextStore == ProcessStored

SpecStore == Init /\ [][NextStore]_vars

\* C28: when every process_trade call so far carried a trade_id, the positions
\* table has a row for every position held in memory, with the same quantity
\* and the same realized_pnl.
PersistedEqualsMemory ==
    (\A i \in 1..Len(fills) : fills[i].trade_id # 0) =>
       \A key \in DOMAIN positions :
          /\ key \in DOMAIN db_positions
          /\ db_positions[key].quantity = positions[key].quantity
          /\ db_positions[key].realized_pnl = positions[key].realized_pnl

----------------------------------------------------------------------------
\* Termination of the matching loop

\* the entries of the two heaps of a book
HeapSize(book) == Len(book.buy_orders) + Len(book.sell_orders)

\* the heads of a book's heaps and what they have left to fill together
HeadsRemaining(os, b, s) == remaining_quantity(os[b]) + remaining_quantity(os[s])

\* C29: inside a submit_order call on positive quantities the only steps are
\* loop iterations and the return.  An iteration is taken only while can_match
\* holds; it emits one trade of quantity > 0, strictly reduces the combined
\* remaining quantity of the two heads, takes at least one of them, left with
\* nothing to fill, off its heap and pops nothing else, so the number of heap
\* entries of the book, which is never negative, strictly falls; the call
\* returns as soon as can_match is false.  The loop of a call therefore ends
\* after at most as many iterations as the book has entries.
MatchingLoopTerminates ==
    [][pc = "match" =>
          LET symbol == orders[cur].symbol
              before == order_books[symbol]
              after == order_books'[symbol]
          IN  IF can_match(orders, before)
              THEN LET b == before.buy_orders[1]
                       s == before.sell_orders[1]
                       gone == {r \in {b, s} :
                                   /\ \A i \in DOMAIN after.buy_orders :
                                         after.buy_orders[i] # r
                                   /\ \A i \in DOMAIN after.sell_orders :
                                         after.sell_orders[i] # r}
                   IN  /\ pc' = "match"
                       /\ cur' = cur
                       /\ Len(trades') = Len(trades) + 1
                       /\ trades'[Len(trades')].quantity > 0
                       /\ HeadsRemaining(orders', b, s) < HeadsRemaining(orders, b, s)
                       /\ HeadsRemaining(orders', b, s) >= 0
                       /\ gone # {}
                       /\ \A r \in gone : remaining_quantity(orders'[r]) = 0
                       /\ HeapSize(after) = HeapSize(before) - Cardinality(gone)
              ELSE /\ pc' = "idle"
                   /\ trades' = trades
                   /\ order_books' = order_books]_vars

\* a submit_order call has returned after two iterations of its loop: its sell
\* order traded with two resting buys
MatchingLoopTerminatesWitness ==
    /\ pc = "idle"
    /\ Len(trades) = 2
    /\ trades[1].sell_order_id = trades[2].sell_order_id
    /\ trades[1].buy_order_id # trades[2].buy_order_id
    /\ trades[1].sell_order_id = orders[Len(orders)].order_id

----------------------------------------------------------------------------
\* The P&L report of a user

\* process_trade calls in a run of SpecReport
MaxFillsReport == 2

\* the users, the trade quantities and the market prices of SpecReport
ReportUsers == {1, 2}
ReportQuantities == {1}
ReportMarks == {2}

\* PnLCalculator.set_current_price
set_current_price(symbol, price) ==
    /\ current_prices' = DictSet(current_prices, symbol, price)
    /\ UNCHANGED <<positions, fills, ret, db_positions, pnl_history>>
    /\ UNCHANGED engine_vars
    /\ UNCHANGED recon_vars
    /\ UNCHANGED run_vars

\* calculate_unrealized_pnl at a price that is a float
calculate_unrealized_pnl_at(position, current_price) ==
    IF position.quantity = 0 THEN RatInt(0)
    ELSE IF position.quantity > 0
         THEN FMul(position.quantity, FSub(current_price, position.avg_cost))
         ELSE FMul(Abs(position.quantity), FSub(position.avg_cost, current_price))

\* round(x, 2) on a float of the P&L calculator
round_cents(x) == Float(Rat(RoundHalfEven(100 * x.n, x.d), 100))

\* the keys of self.positions in the order the dictionary holds them: a
\* position is created by the first process_trade call on its key
RECURSIVE position_keys(_, _)
position_keys(fs, n) ==
    IF n = 0 THEN <<>>
    ELSE LET before == position_keys(fs, n - 1)
             key == <<fs[n].user_id, fs[n].symbol>>
         IN  IF \E i \in DOMAIN before : before[i] = key
             THEN before
             ELSE Append(before, key)

\* the test of generate_user_pnl_report with the realized P&L left out
is_reported_open(position) == position.quantity # 0

\* generate_user_pnl_report: whether a position gets an entry in the report
is_reported(position) ==
    position.quantity # 0 \/ position.realized_pnl # RatInt(0)

\* the loop of generate_user_pnl_report over the first n keys of the dictionary
RECURSIVE report_loop(_, _, _, _, _)
report_loop(ps, prices, keys, n, user_id) ==
    IF n = 0
    THEN [kind |-> "report", user_id |-> user_id,
          total_realized_pnl |-> RatInt(0), total_unrealized_pnl |-> RatInt(0),
          total_pnl |-> RatInt(0), positions |-> <<>>, num_trades |-> 0]
    ELSE LET report == report_loop(ps, prices, keys, n - 1, user_id)
             uid == keys[n][1]
             symbol == keys[n][2]
             position == ps[keys[n]]
             current_price == IF symbol \in DOMAIN prices
                              THEN RatInt(prices[symbol])
                              ELSE position.avg_cost
             unrealized_pnl == calculate_unrealized_pnl_at(position, current_price)
         IN  IF uid # user_id
             THEN report
             ELSE [report EXCEPT
                     !.total_realized_pnl = FAdd(@, position.realized_pnl),
                     !.total_unrealized_pnl = FAdd(@, unrealized_pnl),
                     !.positions =
                        IF is_reported(position)
                        THEN Append(@,
                               [symbol |-> symbol,
                                quantity |-> position.quantity,
                                avg_cost |-> round_cents(position.avg_cost),
                                current_price |-> round_cents(current_price),
                                realized_pnl |-> round_cents(position.realized_pnl),
                                unrealized_pnl |-> round_cents(unrealized_pnl),
                                total_pnl |-> round_cents(FAdd(position.realized_pnl,
                                                               unrealized_pnl))])
                        ELSE @]

\* PnLCalculator.generate_user_pnl_report
generate_user_pnl_report(user_id) ==
    /\ ret' = LET keys == position_keys(fills, Len(fills))
                  report == report_loop(positions, current_prices, keys,
                                        Len(keys), user_id)
              IN  [report EXCEPT !.total_pnl = FAdd(report.total_realized_pnl,
                                                    report.total_unrealized_pnl)]
    /\ UNCHANGED <<positions, current_prices, fills, db_positions, pnl_history>>
    /\ UNCHANGED engine_vars
    /\ UNCHANGED recon_vars
    /\ UNCHANGED run_vars

\* trades of two users, before the report is asked for
ProcessReported ==
    /\ ret.kind = "None"
    /\ Len(fills) < MaxFillsReport
    /\ \E u \in ReportUsers, sym \in Symbols, side \in Sides, p \in TradePrices,
          q \in ReportQuantities :
          process_trade(u, sym, side, p, q)

\* market prices, before the report is asked for
SetPrice ==
    /\ ret.kind = "None"
    /\ \E symbol \in Symbols, price \in ReportMarks : set_current_price(symbol, price)

\* one report in a run
ReportCall ==
    /\ ret.kind = "None"
    /\ \E user_id \in ReportUsers : generate_user_pnl_report(user_id)

NextReport == ProcessReported \/ SetPrice \/ ReportCall

SpecReport == Init /\ [][NextReport]_vars

\* the keys of the positions a user holds
UserKeys(user_id) == {key \in DOMAIN positions : key[1] = user_id}

\* the orders in which the elements of a finite set can be added up
Orderings(S) ==
    {f \in [1..Cardinality(S) -> S] :
        \A i, j \in 1..Cardinality(S) : i # j => f[i] # f[j]}

\* the float sum of the first n values of a sequence, added from 0.0
RECURSIVE FloatSum(_, _)
FloatSum(values, n) ==
    IF n = 0 THEN RatInt(0) ELSE FAdd(FloatSum(values, n - 1), values[n])

\* the unrealized P&L of a position at the market price of its symbol, and at
\* its own average cost (where it is 0) when the symbol has no market price
UnrealizedOf(key) ==
    IF key[2] \in DOMAIN current_prices
    THEN calculate_unrealized_pnl(positions[key], current_prices[key[2]])
    ELSE RatInt(0)

\* what a report r of a user must say, given the positions and market prices
ReportAgrees(r) ==
    LET keys == UserKeys(r.user_id)
        listed == {key \in keys : positions[key].quantity # 0
                                     \/ positions[key].realized_pnl.n # 0}
    IN  /\ Len(r.positions) = Cardinality(listed)
        /\ \A key \in listed :
              \E i \in DOMAIN r.positions :
                 /\ r.positions[i].symbol = key[2]
                 /\ r.positions[i].quantity = positions[key].quantity
        /\ \E f \in Orderings(keys) :
              /\ r.total_realized_pnl =
                    FloatSum([i \in DOMAIN f |-> positions[f[i]].realized_pnl],
                             Cardinality(keys))
              /\ r.total_unrealized_pnl =
                    FloatSum([i \in DOMAIN f |-> UnrealizedOf(f[i])],
                             Cardinality(keys))
        /\ r.total_pnl = FAdd(r.total_realized_pnl, r.total_unrealized_pnl)

\* C30: the report generate_user_pnl_report(u) returns has one entry for each
\* position of u whose quantity or realized P&L is not 0, with that position's
\* symbol and quantity, and no other entry; its total_realized_pnl and
\* total_unrealized_pnl are the (float) sums over all positions of u, none of
\* another user, and its total_pnl is their sum.
UserReportExact ==
    [][(ret' # ret /\ ret'.kind = "report") => ReportAgrees(ret')]_vars

\* user 1 was reported while user 2 holds a position too: the report lists the
\* one position of user 1, valued at the market price of its symbol
UserReportWitness ==
    /\ ret.kind = "report"
    /\ ret.user_id = 1
    /\ \E key \in DOMAIN positions : key[1] = 2 /\ positions[key].quantity # 0
    /\ Len(ret.positions) = 1
    /\ ret.positions[1].quantity # 0
    /\ ret.total_unrealized_pnl # RatInt(0)

----------------------------------------------------------------------------
\* Lazy cleanup, symbol isolation and the orders a call can trade

\* the orders held by the heaps of a book
InHeaps(book) ==
    {book.buy_orders[i] : i \in DOMAIN book.buy_orders}
       \cup {book.sell_orders[i] : i \in DOMAIN book.sell_orders}

\* the heads of the heaps of a book
Heads(book) ==
    (IF book.buy_orders # <<>> THEN {book.buy_orders[1]} ELSE {})
       \cup (IF book.sell_orders # <<>> THEN {book.sell_orders[1]} ELSE {})

\* C32: whenever no submission is in progress, no heap of any book holds an
\* order with remaining quantity 0, and the filled_quantity of an order
\* changes only in a step in which that order is the head of its heap.
LazyCleanupSufficient ==
    [][/\ pc' = "idle" =>
             \A symbol \in DOMAIN order_books' :
                \A r \in InHeaps(order_books'[symbol]) :
                   remaining_quantity(orders'[r]) # 0
       /\ \A r \in Refs :
             orders'[r].filled_quantity # orders[r].filled_quantity =>
                r \in Heads(order_books[orders[r].symbol])]_vars

\* the symbol of the submit_order call a step belongs to
StepSymbol ==
    IF pc = "match" THEN orders[cur].symbol ELSE orders'[Len(orders')].symbol

\* C33: a step of a submit_order call for symbol S leaves the book of every
\* other symbol, and every order of another symbol, as it was; a trade it
\* emits has symbol S, its buy_order_id names a BUY order of S and its
\* sell_order_id a SELL order of S.
SymbolIsolation ==
    [][(pc = "match" \/ pc' = "match") =>
          /\ \A x \in DOMAIN order_books :
                x # StepSymbol => /\ x \in DOMAIN order_books'
                                  /\ order_books'[x] = order_books[x]
          /\ \A x \in DOMAIN order_books' :
                x # StepSymbol => x \in DOMAIN order_books
          /\ \A r \in Refs :
                orders[r].symbol # StepSymbol => orders'[r] = orders[r]
          /\ \A i \in (Len(trades) + 1)..Len(trades') :
                /\ trades'[i].symbol = StepSymbol
                /\ \E b, s \in 1..Len(orders') :
                      /\ orders'[b].order_id = trades'[i].buy_order_id
                      /\ orders'[b].side = "BUY"
                      /\ orders'[b].symbol = StepSymbol
                      /\ orders'[s].order_id = trades'[i].sell_order_id
                      /\ orders'[s].side = "SELL"
                      /\ orders'[s].symbol = StepSymbol]_vars

\* a trade on one symbol was emitted while the book of the other symbol holds
\* a resting order
SymbolIsolationWitness ==
    /\ pc = "idle"
    /\ Len(trades) = 1
    /\ \E x \in DOMAIN order_books :
          /\ x # trades[1].symbol
          /\ order_books[x].buy_orders # <<>>
    /\ orders[Len(orders)].symbol = trades[1].symbol
    /\ orders[1].symbol # trades[1].symbol

\* orders submitted in a run of SpecQueue
MaxOrdersQueue == 4

\* one symbol and one quantity, so that runs of four orders stay few
QueueSymbols == {"AAPL"}
QueueQuantities == {1}

SubmitQueue ==
    /\ Len(orders) < MaxOrdersQueue
    /\ \E u \in Users, sym \in QueueSymbols, side \in Sides, p \in Prices,
          q \in QueueQuantities :
          submit_order(u, sym, side, p, q)

NextQueue == SubmitQueue \/ MatchIteration \/ SubmitReturn

SpecQueue == Init /\ [][NextQueue]_vars

\* C37: every trade emitted during a submit_order call has the order of that
\* call as its buy order or as its sell order.
TradesInvolveNewOrder ==
    [][(pc = "match" /\ Len(trades') > Len(trades)) =>
          \A i \in (Len(trades) + 1)..Len(trades') :
             \/ trades'[i].buy_order_id = orders[cur].order_id
             \/ trades'[i].sell_order_id = orders[cur].order_id]_vars

\* a call has traded its order against a resting order while another order
\* rests on each side of the book
TradesInvolveNewOrderWitness ==
    /\ pc = "idle"
    /\ Len(orders) = 4
    /\ Len(trades) = 1
    /\ trades[1].buy_order_id = 4 \/ trades[1].sell_order_id = 4
    /\ order_books["AAPL"].buy_orders # <<>>
    /\ order_books["AAPL"].sell_orders # <<>>

----------------------------------------------------------------------------
\* The average cost of a position

\* C34: after any sequence of process_trade events with positive prices and
\* quantities, the avg_cost of every position is >= 0, and it is 0 whenever the
\* quantity of the position is 0.
AvgCostSound ==
    \A key \in DOMAIN positions :
       /\ positions[key].avg_cost.n >= 0
       /\ positions[key].avg_cost.d > 0
       /\ positions[key].quantity = 0 => positions[key].avg_cost = RatInt(0)

\* a position was opened at a positive cost and closed again
AvgCostSoundWitness ==
    \E i \in 1..Len(fills) : \E j \in 1..Len(fills) :
       /\ i < j
       /\ KeyOf(fills[i]) = KeyOf(fills[j])
       /\ fills[i].position.quantity # 0
       /\ fills[i].position.avg_cost.n > 0
       /\ fills[j].position.quantity = 0
       /\ j = Len(fills)
       /\ positions[KeyOf(fills[j])].avg_cost = RatInt(0)

----------------------------------------------------------------------------
\* A failed read of the trades of the date

\* reconcile_trades calls in a run of SpecUnread
MaxRunsUnread == 2

\* _get_trades_for_date answering a query that raised as if it had not
get_trades_despite_error(stored, raised) == stored

\* Reconciler._get_trades_for_date: how many rows it returns when the store
\* holds `stored` trades for the date; the empty list when the query raised
get_trades_for_date(stored, raised) == IF raised THEN 0 ELSE stored

\* a reconcile_trades call whose read of the trades may raise in the store
ReconcileDate ==
    /\ recon.pc \in {"idle", "done"}
    /\ runs < MaxRunsUnread
    /\ \E stored \in 0..MaxDbTrades, raised \in BOOLEAN :
          /\ fetch' = [stored |-> stored, raised |-> raised]
          /\ reconcile_trades(get_trades_for_date(stored, raised))

NextUnread == InsertFaulty \/ ReconcileDate \/ ValidateAgain \/ ReconcileFinish

SpecUnread == Init /\ [][NextUnread]_vars

\* C40: a reconcile_trades call whose read of the trades raised in the store
\* returns at once, with the result of a date that has no trades:
\* total_trades 0, matched_trades 0, discrepancies 0, accuracy 100.0, no issues.
UnreadableIsEmpty ==
    [][(runs' = runs + 1 /\ fetch'.raised) =>
          /\ recon'.pc = "done"
          /\ result' = [total_trades |-> 0, matched_trades |-> 0,
                        discrepancies |-> 0, accuracy |-> RatInt(100),
                        issues |-> <<>>]
          /\ reconciliation_log' = reconciliation_log]_vars

\* the store held two trades for the date, the read of the second run raised
\* and that run has returned the empty result
UnreadableIsEmptyWitness ==
    /\ fetch.raised
    /\ fetch.stored = 2
    /\ runs = 2
    /\ recon.pc = "done"
    /\ result.total_trades = 0
    /\ result.accuracy = RatInt(100)

----------------------------------------------------------------------------
\* submit_order called by two threads on one engine, one statement at a time

\* the threads, and the calls each of them makes in a run of SpecThreads
Threads == {1, 2}
MaxThreadCalls == 1

\* the trades of a run of SpecThreads: interleaved fills can leave a head that
\* is never popped, and the loop then goes on for ever
MaxThreadTrades == 2

\* what a thread holds before its first call
IdleThread == [pc |-> "idle", calls |-> 0]

\* the thread t, wherever it is
ThreadOf(t) == IF t \in DOMAIN threads THEN threads[t] ELSE IdleThread

\* every step of a thread leaves these alone
ThreadFrame ==
    /\ UNCHANGED <<pc, cur, call, snapshot, db_trades, sim>>
    /\ UNCHANGED pnl_vars
    /\ UNCHANGED recon_vars

\* submit_order, lines 154-165: the Order is built with the next_order_id read
\* at this point
ThreadCreate(t) ==
    /\ ThreadOf(t).pc \in {"idle", "done"}
    /\ ThreadOf(t).calls < MaxThreadCalls
    /\ \E u \in Users, sym \in QueueSymbols, side \in Sides, p \in Prices,
          q \in QueueQuantities, timestamp \in ClockReadings(now) :
          /\ threads' = DictSet(threads, t,
                [pc |-> "increment", calls |-> ThreadOf(t).calls + 1,
                 order |-> [order_id |-> next_order_id, user_id |-> u,
                            symbol |-> sym, side |-> side, price |-> p,
                            quantity |-> q, timestamp |-> timestamp,
                            status |-> "PENDING", filled_quantity |-> 0],
                 ref |-> 0, buy_order |-> 0, sell_order |-> 0,
                 trade_quantity |-> 0, trade |-> None])
          /\ now' = timestamp
    /\ UNCHANGED <<orders, order_books, trades, next_order_id, next_trade_id,
                   order_count>>
    /\ ThreadFrame

\* submit_order, line 167: self.next_order_id += 1
ThreadIncrement(t) ==
    /\ ThreadOf(t).pc = "increment"
    /\ next_order_id' = next_id(next_order_id)
    /\ threads' = [threads EXCEPT ![t].pc = "book"]
    /\ UNCHANGED <<orders, order_books, trades, next_trade_id, order_count, now>>
    /\ ThreadFrame

\* submit_order, line 170: order_book = self.get_or_create_order_book(symbol)
ThreadBook(t) ==
    /\ ThreadOf(t).pc = "book"
    /\ order_books' = get_or_create_order_book(order_books, threads[t].order.symbol)
    /\ threads' = [threads EXCEPT ![t].pc = "add"]
    /\ UNCHANGED <<orders, trades, next_order_id, next_trade_id, order_count, now>>
    /\ ThreadFrame

\* submit_order, line 173: order_book.add_order(order)
ThreadAdd(t) ==
    /\ ThreadOf(t).pc = "add"
    /\ LET os == Append(orders, threads[t].order)
           ref == Len(orders) + 1
           symbol == threads[t].order.symbol
       IN  /\ orders' = os
           /\ order_books' = [order_books EXCEPT ![symbol] = add_order(os, @, ref)]
           /\ threads' = [threads EXCEPT ![t].pc = "while", ![t].ref = ref]
    /\ UNCHANGED <<trades, next_order_id, next_trade_id, order_count, now>>
    /\ ThreadFrame

\* _match_orders, lines 189-194: the loop test and the two heads
ThreadWhile(t) ==
    /\ ThreadOf(t).pc = "while"
    /\ LET order_book == order_books[threads[t].order.symbol]
       IN  threads' =
              IF can_match(orders, order_book)
              THEN [threads EXCEPT ![t].pc = "trade",
                                   ![t].buy_order = order_book.buy_orders[1],
                                   ![t].sell_order = order_book.sell_orders[1]]
              ELSE [threads EXCEPT ![t].pc = "count"]
    /\ UNCHANGED <<orders, order_books, trades, next_order_id, next_trade_id,
                   order_count, now>>
    /\ ThreadFrame

\* _match_orders, lines 196-215: trade_quantity, trade_price and the Trade,
\* built with the next_trade_id read at this point
ThreadTrade(t) ==
    /\ ThreadOf(t).pc = "trade"
    /\ Len(trades) < MaxThreadTrades
    /\ \E timestamp \in ClockReadings(now) :
          LET buy_order == orders[threads[t].buy_order]
              sell_order == orders[threads[t].sell_order]
              qty == trade_quantity(buy_order, sell_order)
          IN  /\ threads' = [threads EXCEPT
                    ![t].pc = "trade_id",
                    ![t].trade_quantity = qty,
                    ![t].trade = [trade_id |-> next_trade_id,
                                  buy_order_id |-> buy_order.order_id,
                                  sell_order_id |-> sell_order.order_id,
                                  symbol |-> threads[t].order.symbol,
                                  price |-> trade_price(buy_order, sell_order),
                                  quantity |-> qty,
                                  timestamp |-> timestamp]]
              /\ now' = timestamp
    /\ UNCHANGED <<orders, order_books, trades, next_order_id, next_trade_id,
                   order_count>>
    /\ ThreadFrame

\* _match_orders, line 217: self.next_trade_id += 1
ThreadTradeId(t) ==
    /\ ThreadOf(t).pc = "trade_id"
    /\ next_trade_id' = next_id(next_trade_id)
    /\ threads' = [threads EXCEPT ![t].pc = "append"]
    /\ UNCHANGED <<orders, order_books, trades, next_order_id, order_count, now>>
    /\ ThreadFrame

\* _match_orders, line 218: self.trades.append(trade)
ThreadAppend(t) ==
    /\ ThreadOf(t).pc = "append"
    /\ trades' = Append(trades, threads[t].trade)
    /\ threads' = [threads EXCEPT ![t].pc = "fill"]
    /\ UNCHANGED <<orders, order_books, next_order_id, next_trade_id,
                   order_count, now>>
    /\ ThreadFrame

\* _match_orders, lines 221-233: the two fills and the status updates
ThreadFill(t) ==
    /\ ThreadOf(t).pc = "fill"
    /\ orders' = [orders EXCEPT
                    ![threads[t].buy_order] = fill(@, threads[t].trade_quantity),
                    ![threads[t].sell_order] = fill(@, threads[t].trade_quantity)]
    /\ threads' = [threads EXCEPT ![t].pc = "clean"]
    /\ UNCHANGED <<order_books, trades, next_order_id, next_trade_id,
                   order_count, now>>
    /\ ThreadFrame

\* _match_orders, line 236: order_book.remove_filled_orders()
ThreadClean(t) ==
    /\ ThreadOf(t).pc = "clean"
    /\ order_books' = [order_books EXCEPT
                          ![threads[t].order.symbol] = remove_filled_orders(orders, @)]
    /\ threads' = [threads EXCEPT ![t].pc = "while"]
    /\ UNCHANGED <<orders, trades, next_order_id, next_trade_id, order_count, now>>
    /\ ThreadFrame

\* submit_order, lines 179-183: self.order_count += 1 and the return
ThreadCount(t) ==
    /\ ThreadOf(t).pc = "count"
    /\ order_count' = order_count + 1
    /\ threads' = [threads EXCEPT ![t].pc = "done"]
    /\ UNCHANGED <<orders, order_books, trades, next_order_id, next_trade_id, now>>
    /\ ThreadFrame

NextThreads ==
    \E t \in Threads :
       \/ ThreadCreate(t) \/ ThreadIncrement(t) \/ ThreadBook(t) \/ ThreadAdd(t)
       \/ ThreadWhile(t) \/ ThreadTrade(t) \/ ThreadTradeId(t) \/ ThreadAppend(t)
       \/ ThreadFill(t) \/ ThreadClean(t) \/ ThreadCount(t)

SpecThreads == Init /\ [][NextThreads]_vars

\* the threads that have inserted their order and not yet left the matching loop
InMatching ==
    {t \in DOMAIN threads :
        threads[t].pc \in {"while", "trade", "trade_id", "append", "fill", "clean"}}

\* the threads that are somewhere inside a submit_order call
InCall == {t \in DOMAIN threads : threads[t].pc \notin {"idle", "done"}}

\* C35: submissions interleaved one statement at a time leave what atomic
\* submissions leave: no two orders have the same order_id, no two trades have
\* the same trade_id, and the book is not crossed when no call is in progress.
AtomicSubmission ==
    /\ \A r, q \in Refs : r # q => orders[r].order_id # orders[q].order_id
    /\ \A i, j \in TradeIds : i # j => trades[i].trade_id # trades[j].trade_id
    /\ InCall = {} =>
          \A symbol \in DOMAIN order_books : ~can_match(orders, order_books[symbol])

----------------------------------------------------------------------------
\* The simulator: TradingSimulator and the command of simulate_trading.py

\* orders a simulator hands to its engine, process_orders calls on one
\* simulator, and rows the orders table holds before the run
MaxSimOrders == 3
MaxSimCalls == 2
MaxPriorOrders == 1

\* the users, symbols, prices and sizes generate_random_order draws from
SimUsers == {1, 2}
SimSymbols == {"AAPL"}
SimPrices == {1, 2}
SimQuantities == {1, 2}

\* TradingSimulator.generate_random_order: the dicts it can return
RandomOrders ==
    [user_id : SimUsers, symbol : SimSymbols, side : Sides, price : SimPrices,
     quantity : SimQuantities]

\* the orders of one user and one size, and the orders at one price whose
\* sells have one size
CommandOrders == {o \in RandomOrders : o.user_id = 1 /\ o.quantity = 1}
FoldOrders ==
    {o \in RandomOrders : o.price = 1 /\ (o.side = "SELL" => o.quantity = 1)}

\* TradingSimulator.generate_orders: the lists of one to n orders out of S
Batches(S, n) == UNION {[1..k -> S] : k \in 1..n}

\* DatabaseManager.bulk_insert_orders: every row gets the next AUTO_INCREMENT
\* order_id of the table, status PENDING and the time of the insert
bulk_insert_orders(table, rows, t) ==
    table \o [i \in 1..Len(rows) |->
                [order_id |-> Len(table) + i, user_id |-> rows[i].user_id,
                 symbol |-> rows[i].symbol, side |-> rows[i].side,
                 price |-> rows[i].price, quantity |-> rows[i].quantity,
                 status |-> "PENDING", timestamp |-> t]]

\* DatabaseManager.bulk_insert_trades: every row gets the next AUTO_INCREMENT
\* trade_id of the table and the time of the insert
bulk_insert_trades(table, rows, t) ==
    table \o [i \in 1..Len(rows) |->
                [trade_id |-> Len(table) + i,
                 buy_order_id |-> rows[i].buy_order_id,
                 sell_order_id |-> rows[i].sell_order_id,
                 symbol |-> rows[i].symbol, price |-> rows[i].price,
                 quantity |-> rows[i].quantity, timestamp |-> t]]

\* what the simulator steps leave alone in the reconciler and the threads
SimFrame ==
    /\ UNCHANGED <<recon, reconciliation_log, result, runs, fetch, threads>>

\* rows an earlier run has left in the orders table
PriorBatches ==
    {rows \in Batches(CommandOrders, MaxPriorOrders) :
        \A i \in DOMAIN rows : rows[i].price = 1}

\* the orders table holds rows of an earlier run against the same store
PriorOrders ==
    /\ sim.pc = "idle"
    /\ db_orders = <<>>
    /\ \E rows \in PriorBatches :
          db_orders' = bulk_insert_orders(db_orders, rows, now)
    /\ UNCHANGED <<db_trades, sim>>
    /\ UNCHANGED engine_vars
    /\ UNCHANGED pnl_vars
    /\ SimFrame

\* run_simulation creates the simulator: a new engine, calculator and
\* reconciler on the store that is there.  stored_id keeps, for every order
\* handed to the engine, the order_id the store gave its row; failed, whether
\* an operation on the store has failed; raised, whether an exception is on
\* its way to the caller of run_simulation.
NewSimulator ==
    /\ sim.pc = "idle"
    /\ sim' = [pc |-> "new", batch |-> <<>>, base |-> 0, calls |-> 0,
               stored_id |-> <<>>, failed |-> FALSE, raised |-> FALSE,
               exit_code |-> NULL]
    /\ UNCHANGED <<db_orders, db_trades>>
    /\ UNCHANGED engine_vars
    /\ UNCHANGED pnl_vars
    /\ SimFrame

\* TradingSimulator.process_orders up to its loop: the batch is inserted into
\* the orders table; an error of the store is raised to the caller
process_orders(batch) ==
    /\ pc = "idle"
    /\ \E inserted \in BOOLEAN :
          IF inserted
          THEN /\ db_orders' = bulk_insert_orders(db_orders, batch, now)
               /\ sim' = [sim EXCEPT
                            !.pc = "submit", !.batch = batch,
                            !.base = Len(orders), !.calls = @ + 1,
                            !.stored_id = @ \o [i \in 1..Len(batch) |->
                                                  Len(db_orders) + i]]
          ELSE /\ db_orders' = db_orders
               /\ sim' = [sim EXCEPT
                            !.pc = "raised", !.batch = batch,
                            !.calls = @ + 1, !.failed = TRUE, !.raised = TRUE]
    /\ UNCHANGED db_trades
    /\ UNCHANGED engine_vars
    /\ UNCHANGED pnl_vars
    /\ SimFrame

\* process_orders called by run_simulation, and called again on the same
\* simulator
ProcessOrders ==
    /\ sim.pc \in {"new", "processed"}
    /\ sim.calls < MaxSimCalls
    /\ \E batch \in Batches(CommandOrders, MaxSimOrders - Len(orders)) :
          process_orders(batch)

\* the loop of process_orders: the next order of the batch goes to the engine
SubmitBatch ==
    /\ sim.pc = "submit"
    /\ Len(orders) - sim.base < Len(sim.batch)
    /\ LET order == sim.batch[Len(orders) - sim.base + 1]
       IN  submit_order(order.user_id, order.symbol, order.side, order.price,
                        order.quantity)

\* the rows process_orders makes of the trades of the engine
trade_data(ts) ==
    [i \in 1..Len(ts) |->
        [buy_order_id |-> ts[i].buy_order_id,
         sell_order_id |-> ts[i].sell_order_id, symbol |-> ts[i].symbol,
         price |-> ts[i].price, quantity |-> ts[i].quantity]]

\* process_orders after its loop: the trades of engine.get_trades() are
\* inserted into the trades table, when there are any, and returned; an error
\* of the store is raised to the caller
StoreTrades ==
    /\ sim.pc = "submit"
    /\ pc = "idle"
    /\ Len(orders) - sim.base = Len(sim.batch)
    /\ IF trades # <<>>
       THEN \E inserted \in BOOLEAN :
              IF inserted
              THEN /\ db_trades' = bulk_insert_trades(db_trades,
                                                      trade_data(trades), now)
                   /\ sim' = [sim EXCEPT !.pc = "processed"]
              ELSE /\ db_trades' = db_trades
                   /\ sim' = [sim EXCEPT !.pc = "raised", !.failed = TRUE,
                                         !.raised = TRUE]
       ELSE /\ db_trades' = db_trades
            /\ sim' = [sim EXCEPT !.pc = "processed"]
    /\ UNCHANGED db_orders
    /\ UNCHANGED engine_vars
    /\ UNCHANGED pnl_vars
    /\ SimFrame

\* order_map.get answering for every id as if the map were empty
order_map_get_nothing(os, book, order_id) == None

\* OrderBook.order_map.get(order_id): the order, None when the map has no such id
order_map_get(os, book, order_id) ==
    IF order_id \in DOMAIN book.order_map THEN os[book.order_map[order_id]]
    ELSE None

\* _update_position_in_db after process_trade has made the position `after`
\* of the positions ps: the positions table and pnl_history are written when
\* the trade has an id, unless the store fails (stored false), an error that
\* is swallowed
update_position_in_db(st, ps, after, event, trade_id, stored) ==
    [positions |-> [ps EXCEPT ![<<after.user_id, after.symbol>>] = after],
     fills |-> Append(st.fills, [event EXCEPT !.position = after]),
     db_positions |->
        IF trade_id # 0 /\ stored
        THEN upsert_position(st.db_positions, after.user_id, after.symbol,
                             after.quantity, after.avg_cost, after.realized_pnl)
        ELSE st.db_positions,
     pnl_history |->
        IF trade_id # 0 /\ stored /\ after.realized_pnl # RatInt(0)
        THEN Append(st.pnl_history,
                    [user_id |-> after.user_id, symbol |-> after.symbol,
                     trade_id |-> trade_id,
                     realized_pnl |-> Decimal2(after.realized_pnl)])
        ELSE st.pnl_history]

\* process_trade on the position it got from _get_position
process_position(st, ps, position, side, price, quantity, trade_id, stored) ==
    update_position_in_db(
        st, ps,
        IF side = "BUY" THEN process_buy(position, price, quantity)
        ELSE process_sell(position, price, quantity),
        [user_id |-> position.user_id, symbol |-> position.symbol,
         side |-> side, price |-> price, quantity |-> quantity,
         position |-> position, trade_id |-> trade_id],
        trade_id, stored)

\* _get_position and the rest of process_trade on what it returned
process_created(st, ps, user_id, symbol, side, price, quantity, trade_id, stored) ==
    process_position(st, ps, ps[<<user_id, symbol>>], side, price, quantity,
                     trade_id, stored)

\* PnLCalculator.process_trade with a trade_id, on the calculator and store
\* state st
trade_event(st, user_id, symbol, side, price, quantity, trade_id, stored) ==
    process_created(st, get_position(st.positions, user_id, symbol), user_id,
                    symbol, side, price, quantity, trade_id, stored)

\* the body of the loop processing a trade for its buyer alone
fold_trade_buyer_only(st, trade, buy_order, sell_order, stored) ==
    IF buy_order # None /\ sell_order # None
    THEN trade_event(st, buy_order.user_id, trade.symbol, "BUY", trade.price,
                     trade.quantity, trade.trade_id, stored)
    ELSE st

\* the body of the loop of calculate_pnl: a trade whose two orders were found
\* in the order_map of its symbol is processed for the buyer and then for the
\* seller; any other trade is passed over
fold_trade(st, trade, buy_order, sell_order, stored) ==
    IF buy_order # None /\ sell_order # None
    THEN trade_event(trade_event(st, buy_order.user_id, trade.symbol, "BUY",
                                 trade.price, trade.quantity, trade.trade_id,
                                 stored),
                     sell_order.user_id, trade.symbol, "SELL", trade.price,
                     trade.quantity, trade.trade_id, stored)
    ELSE st

\* the loop of calculate_pnl over the trades ts[i..]
RECURSIVE fold_trades(_, _, _, _, _, _)
fold_trades(st, os, books, ts, i, stored) ==
    IF i > Len(ts) THEN st
    ELSE fold_trades(
             fold_trade(st, ts[i],
                        order_map_get(os, books[ts[i].symbol], ts[i].buy_order_id),
                        order_map_get(os, books[ts[i].symbol], ts[i].sell_order_id),
                        stored),
             os, books, ts, i + 1, stored)

\* the highest price of the configuration, of which calculate_pnl takes half
\* as the last price of a symbol that has not traded
max_price == 2

\* random.uniform(0.95, 1.05) in hundredths: its two ends
PriceMoves == {95, 105}

\* the price of the last trade of a symbol, max_price / 2 when it has none
RECURSIVE last_price(_, _, _)
last_price(ts, symbol, n) ==
    IF n = 0 THEN Rat(max_price, 2)
    ELSE IF ts[n].symbol = symbol THEN RatInt(ts[n].price)
    ELSE last_price(ts, symbol, n - 1)

\* round(last_price * move, 2)
moved_price(price, move) ==
    Rat(RoundHalfEven(100 * price.n * move, price.d * 100), 100)

\* calculate_pnl after its loop has left the calculator and the store as st:
\* every symbol of the configuration gets a market price, and the portfolio
\* report is made (the report changes nothing)
set_prices(st, move, attempted) ==
    /\ positions' = st.positions
    /\ fills' = st.fills
    /\ db_positions' = st.db_positions
    /\ pnl_history' = st.pnl_history
    /\ current_prices' =
          [symbol \in (DOMAIN current_prices) \cup SimSymbols |->
              IF symbol \in SimSymbols
              THEN moved_price(last_price(trades, symbol, Len(trades)),
                               move[symbol])
              ELSE current_prices[symbol]]
    /\ sim' = [sim EXCEPT
                 !.pc = "calculated",
                 !.failed = @ \/ (attempted /\ st.fills # fills)]

\* TradingSimulator.calculate_pnl: the trades of the engine are folded into
\* the positions, then the prices are set
CalculatePnl ==
    /\ sim.pc = "processed"
    /\ \E stored \in BOOLEAN :
          LET st == fold_trades([positions |-> positions, fills |-> fills,
                                 db_positions |-> db_positions,
                                 pnl_history |-> pnl_history],
                                orders, order_books, trades, 1, stored)
          IN  \E move \in [SimSymbols -> PriceMoves] :
                 set_prices(st, move, ~stored)
    /\ ret' = [kind |-> "None"]
    /\ UNCHANGED <<db_orders, db_trades>>
    /\ UNCHANGED engine_vars
    /\ SimFrame

\* TradingSimulator.generate_pnl_report: the positions are read from the
\* store and added up; an error of the query is raised to the caller
GeneratePnlReport ==
    /\ sim.pc = "calculated"
    /\ \E read \in BOOLEAN :
          sim' = IF read THEN [sim EXCEPT !.pc = "reported"]
                 ELSE [sim EXCEPT !.pc = "raised", !.failed = TRUE,
                                  !.raised = TRUE]
    /\ UNCHANGED <<db_orders, db_trades>>
    /\ UNCHANGED engine_vars
    /\ UNCHANGED pnl_vars
    /\ SimFrame

\* TradingSimulator.run_reconciliation: reconcile_trades(date.today()) on the
\* trades the store holds, the read of which may raise in the store
RunReconciliation ==
    /\ sim.pc = "reported"
    /\ recon.pc = "idle"
    /\ \E raised \in BOOLEAN :
          /\ fetch' = [stored |-> Len(db_trades), raised |-> raised]
          /\ reconcile_trades(get_trades_for_date(Len(db_trades), raised))

\* an iteration of the loop of reconcile_trades on the next row of the trades
\* table
ValidateStored ==
    /\ sim.pc = "reported"
    /\ recon.pc = "loop"
    /\ recon.n < recon.total_trades
    /\ validate_next(db_trades[recon.n + 1], {})

\* run_simulation prints the summary and returns; the command has nothing
\* left to do and the process ends, with exit code 0
SimulationReturns ==
    /\ sim.pc = "reported"
    /\ recon.pc = "done"
    /\ sim' = [sim EXCEPT !.pc = "exited", !.exit_code = 0]
    /\ UNCHANGED <<db_orders, db_trades>>
    /\ UNCHANGED engine_vars
    /\ UNCHANGED pnl_vars
    /\ SimFrame

\* an exception raised in run_simulation reaches the except clause of the
\* command, which logs it; the process then ends, with exit code 0
SimulationFailed ==
    /\ sim.pc = "raised"
    /\ sim' = [sim EXCEPT !.pc = "exited", !.exit_code = 0]
    /\ UNCHANGED <<db_orders, db_trades>>
    /\ UNCHANGED engine_vars
    /\ UNCHANGED pnl_vars
    /\ SimFrame

NextSim ==
    \/ PriorOrders \/ NewSimulator \/ ProcessOrders \/ SubmitBatch
    \/ MatchIteration \/ SubmitReturn \/ StoreTrades \/ CalculatePnl
    \/ GeneratePnlReport \/ RunReconciliation \/ ValidateStored
    \/ ReconcileFinish \/ SimulationReturns \/ SimulationFailed

SpecSim == Init /\ [][NextSim]_vars

\* The simulator up to its P&L: one batch of orders of two users, processed
\* and folded into the positions

\* orders in the batch of a run of SpecFold
MaxFoldOrders == 3

\* process_orders called once, by run_simulation
ProcessBatch ==
    /\ sim.pc = "new"
    /\ \E batch \in Batches(FoldOrders, MaxFoldOrders) : process_orders(batch)

NextFold ==
    \/ NewSimulator \/ ProcessBatch \/ SubmitBatch \/ MatchIteration
    \/ SubmitReturn \/ StoreTrades \/ CalculatePnl

SpecFold == Init /\ [][NextFold]_vars

----------------------------------------------------------------------------
\* Properties of the simulator

\* the order_id the store gave the row of the order the engine knows as id
StoredId(id) == sim.stored_id[CHOOSE r \in Refs : orders[r].order_id = id]

\* C36: when process_orders has returned, the trades table holds one row for
\* every trade of the engine, and the row's buy_order_id and sell_order_id are
\* the order_ids the store assigned to the rows of the two orders that matched,
\* whatever the orders table held before and however many calls were made.
PersistedTradesNameStoredOrders ==
    sim.pc = "processed" =>
       /\ Len(db_trades) = Len(trades)
       /\ \A i \in TradeIds :
             /\ db_trades[i].buy_order_id = StoredId(trades[i].buy_order_id)
             /\ db_trades[i].sell_order_id = StoredId(trades[i].sell_order_id)

\* C31: the command exits with code 0 exactly when no operation on the store
\* has failed during the run: not the insert of the orders or of the trades,
\* not a write of a position, not the read of the report or of the trades.
ExitCodeReflectsFailure ==
    sim.pc = "exited" => (sim.exit_code = 0 <=> ~(sim.failed \/ fetch.raised))

\* the first process_trade call calculate_pnl makes for trade i, and the second
BuyEvent(i) == fills[2 * i - 1]
SellEvent(i) == fills[2 * i]

\* C38: every order the engine accepted is in the order_map of the book of its
\* symbol, under its order_id, filled and popped or not; both order ids of
\* every trade are in the order_map of the trade's symbol; and calculate_pnl
\* has processed every trade twice, in the order of the trades: as a BUY of
\* the buy order's user and then as a SELL of the sell order's user, at the
\* price and quantity of the trade.
NoTradeSkipped ==
    /\ \A r \in Refs :
          /\ orders[r].symbol \in DOMAIN order_books
          /\ orders[r].order_id \in DOMAIN order_books[orders[r].symbol].order_map
          /\ order_books[orders[r].symbol].order_map[orders[r].order_id] = r
    /\ \A i \in TradeIds :
          /\ trades[i].buy_order_id \in DOMAIN order_books[trades[i].symbol].order_map
          /\ trades[i].sell_order_id \in DOMAIN order_books[trades[i].symbol].order_map
    /\ sim.pc = "calculated" =>
          /\ Len(fills) = 2 * Len(trades)
          /\ \A i \in TradeIds :
                LET trade == trades[i]
                    buyer == OrderOf(orders, trade.buy_order_id).user_id
                    seller == OrderOf(orders, trade.sell_order_id).user_id
                IN  /\ BuyEvent(i).user_id = buyer
                    /\ BuyEvent(i).side = "BUY"
                    /\ SellEvent(i).user_id = seller
                    /\ SellEvent(i).side = "SELL"
                    /\ \A e \in {BuyEvent(i), SellEvent(i)} :
                          /\ e.symbol = trade.symbol
                          /\ e.price = trade.price
                          /\ e.quantity = trade.quantity
                          /\ e.trade_id = trade.trade_id

\* calculate_pnl has processed two trades; the buy order of the first was
\* filled by it and is on no heap any more
NoTradeSkippedWitness ==
    /\ sim.pc = "calculated"
    /\ Len(trades) = 2
    /\ Len(fills) = 4
    /\ LET r == CHOOSE r \in Refs : orders[r].order_id = trades[1].buy_order_id
       IN  /\ remaining_quantity(orders[r]) = 0
           /\ r \notin InHeaps(order_books[orders[r].symbol])

\* the sum of position.quantity over the keys of a set
RECURSIVE SumQuantity(_, _)
SumQuantity(ps, keys) ==
    IF keys = {} THEN 0
    ELSE LET key == CHOOSE k \in keys : TRUE
         IN  ps[key].quantity + SumQuantity(ps, keys \ {key})

\* C39: when calculate_pnl has folded the trades of the engine, the
\* quantities of the positions in a symbol, of all users, add up to 0.
PositionsNetToZero ==
    sim.pc = "calculated" =>
       \A symbol \in SimSymbols :
          SumQuantity(positions, {key \in DOMAIN positions : key[2] = symbol}) = 0

\* calculate_pnl has folded a trade of a user with itself and a trade between
\* two users, and a position is left open
PositionsNetToZeroWitness ==
    /\ sim.pc = "calculated"
    /\ \E i, j \in TradeIds :
          /\ OrderOf(orders, trades[i].buy_order_id).user_id
                = OrderOf(orders, trades[i].sell_order_id).user_id
          /\ OrderOf(orders, trades[j].buy_order_id).user_id
                # OrderOf(orders, trades[j].sell_order_id).user_id
    /\ \E key \in DOMAIN positions : positions[key].quantity # 0
====
